---- MODULE Spec2Model ----
(***************************************************************************)
(* Proof-obligation engine and dependency-aware proof cache of naproche.   *)
(*                                                                         *)
(*   check/cache.py   ProverCache (table proofs, get_proof, save_proof)    *)
(*   check/engine.py  verify_task (one obligation, run by a pool worker)   *)
(*                    Engine (statement stream, check_proof, reporting)    *)
(*                                                                         *)
(* Formulas are numbered; get_formula_string maps a formula to the number  *)
(* of its canonical string, and the digest of a string is the string       *)
(* itself (sha256 is taken to be injective).                               *)
(***************************************************************************)
EXTENDS Integers, Sequences, FiniteSets, TLC

\* ------------------------------------------------------------------ bounds
MaxRows == 2       \* rows of the proofs table
MaxUsed == 1       \* names a prover reports as used (and candidates for them)
MaxTime == 1       \* durations measured in benchmark mode
MaxSteps == 2      \* obligations of a proof body
MaxBody == 4       \* statements of a proof body
MaxStmts == 2      \* calls of process_statement before the main file ends
MaxNest == 1       \* connectives and quantifiers nested in an argument formula
MaxCounter == 12   \* formulas named before a proof block begins

\* -------------------------------------------------------------- formulas
\* p(x) with x = Constant("x"), p(x) with x = Constant("X"), q, and two goals
F_px == 11
F_pX == 12
F_q == 13
G_1 == 21
G_2 == 22

\* fol.py: Constant.__str__ lower-cases an upper-case name that needs no
\* quote, so Constant("X") and Constant("x") have the same canonical string.
get_formula_string(f) == IF f = F_pX THEN F_px ELSE f

compute_hash_formula(f) == get_formula_string(f)

\* ------------------------------------------------------ sequence helpers
Range(s) == {s[k] : k \in 1..Len(s)}

NoRep(s) == \A j, k \in 1..Len(s) : j # k => s[j] # s[k]

RECURSIVE SeqsUpTo(_, _)
SeqsUpTo(S, n) ==
    IF n = 0 THEN {<<>>}
    ELSE LET shorter == SeqsUpTo(S, n - 1)
         IN shorter \cup {Append(s, x) : s \in shorter, x \in S}

\* the sequences without repetition over S, of length at most n
SeqsNoRep(S, n) == {s \in SeqsUpTo(S, n) : NoRep(s)}

RECURSIVE AscendingSeq(_)
AscendingSeq(S) ==
    IF S = {} THEN <<>>
    ELSE LET m == CHOOSE x \in S : \A y \in S : x <= y
         IN <<m>> \o AscendingSeq(S \ {m})

RECURSIVE Reverse(_)
Reverse(s) == IF s = <<>> THEN <<>> ELSE Append(Reverse(Tail(s)), Head(s))

\* list(a_set): the iteration order of a Python set of strings is not
\* specified; two of the possible orders are kept.
SetOrders(S) == {AscendingSeq(S), Reverse(AscendingSeq(S))}

\* ------------------------------------------------- verify_task, hashing
\* a name such as ax_3 or step_0 is the pair <<"ax", 3>>, <<"step", 0>>
Name(kind, n) == <<kind, n>>

\* premises are pairs <<name, formula>>
Names(all_axioms) == {all_axioms[k][1] : k \in 1..Len(all_axioms)}

\* the dict name -> digest; a later entry with the same name replaces an
\* earlier one
axiom_hashes(all_axioms) ==
    [n \in Names(all_axioms) |->
        LET last == CHOOSE k \in 1..Len(all_axioms) :
                        /\ all_axioms[k][1] = n
                        /\ \A j \in (k + 1)..Len(all_axioms) : all_axioms[j][1] # n
        IN compute_hash_formula(all_axioms[last][2])]

RECURSIVE SortedValues(_, _)
SortedValues(h, names) ==
    IF names = {} THEN <<>>
    ELSE LET m == CHOOSE n \in names : \A k \in names : h[n] <= h[k]
         IN <<h[m]>> \o SortedValues(h, names \ {m})

sorted_hashes(all_axioms) ==
    SortedValues(axiom_hashes(all_axioms), Names(all_axioms))

goal_hash(goal_f) == compute_hash_formula(goal_f)

\* a context hash that leaves the premises out
full_context_hash_goal_only(all_axioms, goal_f) ==
    <<<<>>, goal_hash(goal_f)>>

full_context_hash(all_axioms, goal_f) ==
    <<sorted_hashes(all_axioms), goal_hash(goal_f)>>

available_hashes_set(all_axioms) ==
    {axiom_hashes(all_axioms)[n] : n \in Names(all_axioms)}

\* --------------------------------------------------------- ProverCache
None == "None"

RECURSIVE FirstAnswer_whole_context(_, _, _)
\* a lookup that accepts a success only for exactly the available digests
FirstAnswer_whole_context(rows, available, context_hash) ==
    IF rows = <<>> THEN None
    ELSE LET r == Head(rows)
         IN IF r.result
            THEN IF Range(r.dependencies) = available
                 THEN "True"
                 ELSE FirstAnswer_whole_context(Tail(rows), available, context_hash)
            ELSE IF r.context_hash = context_hash
                 THEN "False"
                 ELSE FirstAnswer_whole_context(Tail(rows), available, context_hash)

RECURSIVE FirstAnswer(_, _, _)
\* the loop of get_proof over the fetched rows, in the order of the rows
FirstAnswer(rows, available, context_hash) ==
    IF rows = <<>> THEN None
    ELSE LET r == Head(rows)
         IN IF r.result
            THEN IF Range(r.dependencies) \subseteq available
                 THEN "True"
                 ELSE FirstAnswer(Tail(rows), available, context_hash)
            ELSE IF r.context_hash = context_hash
                 THEN "False"
                 ELSE FirstAnswer(Tail(rows), available, context_hash)

\* a lookup that fetches the success rows only
get_proof_successes_only(table, gh, available, context_hash) ==
    LET same_goal(r) == r.goal_hash = gh /\ r.result
    IN FirstAnswer(SelectSeq(table, same_goal), available, context_hash)

\* SELECT ... FROM proofs WHERE goal_hash = ?, then the loop
get_proof(table, gh, available, context_hash) ==
    LET same_goal(r) == r.goal_hash = gh
    IN FirstAnswer(SelectSeq(table, same_goal), available, context_hash)

Row(gh, used_hashes, result, context_hash) ==
    [goal_hash |-> gh, dependencies |-> used_hashes,
     result |-> result, context_hash |-> context_hash]

\* the SELECT of save_proof: is an identical row stored?
has_identical(table, row) == \E k \in 1..Len(table) : table[k] = row

\* ------------------------------------------------------- logic/fol.py
\* Terms and formulas are nodes; args holds the arguments of a function or
\* a predicate, the two sides of an equation or a connective, or the body
\* of a quantifier, and vars the names of the variables a quantifier binds.
Node(op, name, vars, args) == [op |-> op, name |-> name, vars |-> vars, args |-> args]
Variable(name) == Node("Variable", name, <<>>, <<>>)
Constant(name) == Node("Constant", name, <<>>, <<>>)
Function(name, args) == Node("Function", name, <<>>, args)
Predicate(name, args) == Node("Predicate", name, <<>>, args)
Equal(left, right) == Node("Equal", "", <<>>, <<left, right>>)
Not(formula) == Node("Not", "", <<>>, <<formula>>)
And(left, right) == Node("And", "", <<>>, <<left, right>>)
Or(left, right) == Node("Or", "", <<>>, <<left, right>>)
Implies(left, right) == Node("Implies", "", <<>>, <<left, right>>)
Iff(left, right) == Node("Iff", "", <<>>, <<left, right>>)
Quantifier(type, vars, body) == Node("Quantifier", type, vars, <<body>>)

\* substitute_term
RECURSIVE substitute_term(_, _, _)
substitute_term(term, var_name, replacement) ==
    IF term.op = "Variable"
    THEN IF term.name = var_name THEN replacement ELSE term
    ELSE IF term.op = "Function"
    THEN Function(term.name, [k \in 1..Len(term.args) |->
                                substitute_term(term.args[k], var_name, replacement)])
    ELSE term

\* substitute
RECURSIVE substitute(_, _, _)
substitute(formula, var_name, replacement) ==
    IF formula.op = "Predicate"
    THEN Predicate(formula.name, [k \in 1..Len(formula.args) |->
                                    substitute_term(formula.args[k], var_name, replacement)])
    ELSE IF formula.op = "Equal"
    THEN Equal(substitute_term(formula.args[1], var_name, replacement),
               substitute_term(formula.args[2], var_name, replacement))
    ELSE IF formula.op = "Not"
    THEN Not(substitute(formula.args[1], var_name, replacement))
    ELSE IF formula.op \in {"And", "Or", "Implies", "Iff"}
    THEN Node(formula.op, "", <<>>,
              <<substitute(formula.args[1], var_name, replacement),
                substitute(formula.args[2], var_name, replacement)>>)
    ELSE IF formula.op = "Quantifier"
    THEN IF \E k \in 1..Len(formula.vars) : formula.vars[k] = var_name
         THEN formula
         ELSE Quantifier(formula.name, formula.vars,
                         substitute(formula.args[1], var_name, replacement))
    ELSE formula

\* str.lower on the names of variables
lower(name) ==
    IF name = "X" THEN "x"
    ELSE IF name = "A" THEN "a"
    ELSE IF name = "Y" THEN "y"
    ELSE name

\* check_proof, lines 428-431: for v in current_goal.vars:
\*     term = substitute(term, v.name, Constant(v.name.lower()))
RECURSIVE substitute_constants(_, _)
substitute_constants(term, names) ==
    IF names = <<>> THEN term
    ELSE substitute_constants(substitute(term, Head(names), Constant(lower(Head(names)))),
                              Tail(names))

\* check_proof, lines 419-445: the loop that decomposes current_goal; left
\* are the formulas it appends to proof_context, in order
RECURSIVE Decompose(_, _)
Decompose(goal, left) ==
    IF goal.op = "Quantifier" /\ goal.name = "forall"
    THEN Decompose(substitute_constants(goal.args[1], goal.vars), left)
    ELSE IF goal.op = "Implies"
    THEN Decompose(goal.args[2], Append(left, goal.args[1]))
    ELSE [focus |-> goal, left |-> left]

\* ------------------------------------------------ logic/translator.py
\* Translator.get_vars_in_term
RECURSIVE get_vars_in_term(_)
get_vars_in_term(term) ==
    IF term.op = "Variable" THEN {term.name}
    ELSE IF term.op = "Function"
         THEN UNION {get_vars_in_term(term.args[k]) : k \in 1..Len(term.args)}
         ELSE {}

\* Translator.get_free_vars; whatever is not of one of the Formula classes
\* has no free variables
RECURSIVE get_free_vars(_)
get_free_vars(formula) ==
    IF formula.op = "Predicate"
    THEN UNION {get_vars_in_term(formula.args[k]) : k \in 1..Len(formula.args)}
    ELSE IF formula.op = "Equal"
    THEN get_vars_in_term(formula.args[1]) \cup get_vars_in_term(formula.args[2])
    ELSE IF formula.op = "Not" THEN get_free_vars(formula.args[1])
    ELSE IF formula.op \in {"And", "Or", "Implies", "Iff"}
    THEN get_free_vars(formula.args[1]) \cup get_free_vars(formula.args[2])
    ELSE IF formula.op = "Quantifier"
    THEN get_free_vars(formula.args[1]) \ Range(formula.vars)
    ELSE {}

\* the variable names of the model in the order sorted() gives them
VariableNames == <<"A", "x", "y">>
Sorted(free_vars) ==
    LET RECURSIVE Pick(_)
        Pick(k) == IF k > Len(VariableNames) THEN <<>>
                   ELSE IF VariableNames[k] \in free_vars
                        THEN <<VariableNames[k]>> \o Pick(k + 1)
                        ELSE Pick(k + 1)
    IN Pick(1)

\* Translator.closure
closure(formula) ==
    LET free_vars == get_free_vars(formula)
    IN IF free_vars = {} THEN formula
       ELSE Quantifier("forall", Sorted(free_vars), formula)

\* translate_sentence returned None
NoAst == Node("None", "", <<>>, <<>>)

\* a Sentence of a block: whether its text starts with Let or Assume, and
\* what translate_sentence(s, as_axiom=True) makes of it
BlockSentence(is_assumption, f) == [is_assumption |-> is_assumption, f |-> f]

\* the conjunction of formulas, nested to the left
RECURSIVE Conjunction(_)
Conjunction(formulas) ==
    IF Len(formulas) = 1 THEN formulas[1]
    ELSE And(Conjunction(SubSeq(formulas, 1, Len(formulas) - 1)), formulas[Len(formulas)])

\* the translations of the sentences of content that have one and are
\* (are not) assumptions, in order
RECURSIVE FormulasOf(_, _)
FormulasOf(content, is_assumption) ==
    IF content = <<>> THEN <<>>
    ELSE IF Head(content).f # NoAst /\ Head(content).is_assumption = is_assumption
         THEN <<Head(content).f>> \o FormulasOf(Tail(content), is_assumption)
         ELSE FormulasOf(Tail(content), is_assumption)

\* Translator.translate_block
translate_block(content) ==
    LET assumptions == FormulasOf(content, TRUE)
        conclusions == FormulasOf(content, FALSE)
    IN IF conclusions = <<>>
       THEN [k \in 1..Len(assumptions) |-> closure(assumptions[k])]
       ELSE IF assumptions # <<>>
            THEN <<closure(Implies(Conjunction(assumptions), Conjunction(conclusions)))>>
            ELSE <<closure(Conjunction(conclusions))>>

\* Translator.translate_statement for a Sentence
translate_statement_sentence(s) == IF s.f # NoAst THEN <<closure(s.f)>> ELSE <<>>

\* ---------------------------------------------------------------- state
VARIABLES
    store,          \* the rows of table proofs of .naproche_cache.db, by id
    stored_under,   \* history: for row k, the obligation that inserted it
    tasks,          \* the futures of the pool: arguments and worker position
    global_use_cache, current_cache_enabled, benchmark_mode,   \* Engine flags
    active_prover_name,     \* ProverManager.active_prover_name
    timelimit,              \* Engine.timelimit
    axioms, context,        \* Engine.axioms, Engine.context
    counter,                \* Engine.counter
    current_goal,           \* Engine.current_goal (NoGoal while not set)
    pc,             \* main thread: "idle", or in check_proof: "steps", "wait"
    i,              \* check_proof: index of the next statement of the body
    reporting,      \* check_proof: index of the next future to report
    proof_context, scope_stack,     \* check_proof locals
    current_prover,                 \* check_proof local (a prover name)
    focus,                          \* check_proof local current_goal
    reported,       \* the reporter calls step_verified/error of this proof
    installed,      \* the provers whose executable is found on this machine
    cache_directive, \* history: the argument of the last cache directive of
                    \* the stream of this run, "" when there was none
    body,           \* history: the statements of proof.content processed so
                    \* far, each with the proof_context it was met with
    files,          \* the files under base_path: for each path, whether it
                    \* exists and the statements its text converts to
    processed_files,    \* Engine.processed_files
    include_stack,  \* the calls of process_file in progress, innermost last:
                    \* the path and the index of its next statement
    loaded,         \* history: the paths logged as "Processing included file"
    last_stmt,      \* history: the statement process_statement was last
                    \* called with
    done,           \* history: the number of calls of process_statement
    context_before, \* history: the length of Engine.context when the last
                    \* Theorem of the main file was reached
    fn_args,        \* a call of a function of logic/fol.py on its own: its
                    \* arguments
    fn_result       \* and what it returned (NoResultYet before it returns)

cacheVars == <<store, stored_under>>
engineVars == <<global_use_cache, current_cache_enabled, benchmark_mode,
                active_prover_name, timelimit, axioms, context, counter,
                current_goal>>
proofVars == <<pc, i, reporting, proof_context, scope_stack, current_prover, focus,
               reported>>
streamVars == <<files, processed_files, include_stack, loaded, last_stmt, done,
                context_before>>
fnVars == <<fn_args, fn_result>>
vars == <<cacheVars, tasks, engineVars, proofVars, installed, cache_directive, body,
          streamVars, fnVars>>

\* ------------------------------------------------------------- provers
\* ProverManager._provers, in registration order
AllProvers == <<"eprover", "vampire", "dummy">>
ProverNames == Range(AllProvers)

NoResult == [success |-> FALSE, reports_used |-> FALSE, used_axioms |-> <<>>]

LastNames(all_axioms, n) ==
    {all_axioms[k][1] : k \in {j \in 1..Len(all_axioms) : j > Len(all_axioms) - n}}

\* what a prover adapter can return for an obligation (base.ProverResult):
\* dummy succeeds with every premise name; eprover and vampire fail when
\* their executable is not found, and otherwise fail, succeed without a
\* proof object (used_axioms None) or succeed with the names read from the
\* proof, drawn here from the last MaxUsed premises and the conjecture
ProverResults(prover, all_axioms) ==
    IF prover = "dummy"
    THEN {[success |-> TRUE, reports_used |-> TRUE,
           used_axioms |-> [k \in 1..Len(all_axioms) |-> all_axioms[k][1]]]}
    ELSE IF prover \notin installed THEN {NoResult}
    ELSE {NoResult, [success |-> TRUE, reports_used |-> FALSE, used_axioms |-> <<>>]}
         \cup {[success |-> TRUE, reports_used |-> TRUE, used_axioms |-> u] :
                 u \in SeqsNoRep(LastNames(all_axioms, MaxUsed) \cup {Name("goal", 0)}, MaxUsed)}

\* ---------------------------------------------------------- verify_task
\* An argument of verify_task is a list object: a list of the caller's own
\* (Copy), or one of the lists the main thread goes on using (Ref), which the
\* worker sees as it is when it reads it.
Copy(list) == [ref |-> "", val |-> list]
Ref(name) == [ref |-> name, val |-> <<>>]
Deref(arg) ==
    IF arg.ref = "self.axioms" THEN axioms
    ELSE IF arg.ref = "self.context" THEN context
    ELSE IF arg.ref = "proof_context" THEN proof_context
    ELSE arg.val

\* line 50: all_axioms = axioms_repr + context_repr + proof_context_repr
all_axioms_of(t) ==
    Deref(t.axioms_repr) \o Deref(t.context_repr) \o Deref(t.proof_context_repr)

\* a cache that is read and written only under the default time budget
UsesCache_default_budget(t) == t.use_cache /\ ~t.benchmark_mode /\ t.timeout_override = 5

\* use_cache and not benchmark_mode
UsesCache(t) == t.use_cache /\ ~t.benchmark_mode

NoRow == Row(0, <<>>, FALSE, <<>>)

Task(step_num, axioms_repr, context_repr, proof_context_repr, goal_repr, prover_instance, use_cache, benchmark, timeout_override) ==
    [step_num |-> step_num, axioms_repr |-> axioms_repr,
     context_repr |-> context_repr, proof_context_repr |-> proof_context_repr,
     goal_repr |-> goal_repr, prover_instance |-> prover_instance,
     use_cache |-> use_cache, benchmark_mode |-> benchmark,
     timeout_override |-> timeout_override,
     submitted_with |->
        Deref(axioms_repr) \o Deref(context_repr) \o Deref(proof_context_repr),
     all_axioms |-> <<>>,
     state |-> "submitted", cached_result |-> None, calls |-> <<>>,
     result |-> NoResult, save_args |-> NoRow,
     ret |-> [is_cached |-> FALSE, success |-> FALSE, benchmark_info |-> <<>>]]

\* the names of result.used_axioms that are premises, as digests, in order
RECURSIVE MapNames(_, _)
MapNames(used_axioms, h) ==
    IF used_axioms = <<>> THEN <<>>
    ELSE IF Head(used_axioms) \in DOMAIN h
         THEN <<h[Head(used_axioms)]>> \o MapNames(Tail(used_axioms), h)
         ELSE MapNames(Tail(used_axioms), h)

\* dependencies that are always the whole available set
used_hashes_of_all_available(result, all_axioms) ==
    SetOrders(available_hashes_set(all_axioms))

\* the choices of used_hashes for a successful result
used_hashes_of(result, all_axioms) ==
    IF result.reports_used
    THEN {MapNames(result.used_axioms, axiom_hashes(all_axioms))}
    ELSE SetOrders(available_hashes_set(all_axioms))

Finished(t) == t.state \in {"done", "raised"}

\* ThreadPoolExecutor: the work items are taken in submission order by
\* multiprocessing.cpu_count() worker threads, each running one task at a
\* time; the machine has two cores
cpu_count == 2
Picked(n) == Cardinality({k \in 1..(n - 1) : ~Finished(tasks[k])}) < cpu_count

\* lines 50-75: digests, then the cache lookup when the cache is in use
TaskLookup(n) ==
    /\ n \in 1..Len(tasks)
    /\ tasks[n].state = "submitted"
    /\ Picked(n)
    /\ LET t == [tasks[n] EXCEPT !.all_axioms = all_axioms_of(tasks[n])]
           cached == IF UsesCache(t)
                     THEN get_proof(store, goal_hash(t.goal_repr),
                                    available_hashes_set(t.all_axioms),
                                    full_context_hash(t.all_axioms, t.goal_repr))
                     ELSE None
       IN tasks' = [tasks EXCEPT ![n] =
            IF cached # None
            THEN [t EXCEPT !.state = "done", !.cached_result = cached,
                           !.ret = [is_cached |-> TRUE, success |-> (cached = "True"),
                                    benchmark_info |-> <<>>]]
            ELSE [t EXCEPT !.state = "proving"]]
    /\ UNCHANGED <<body, installed, fnVars, streamVars, cache_directive, cacheVars, engineVars, proofVars>>

\* lines 93-118, standard mode: one call of the prover, then, when the cache
\* is in use, save_proof up to its SELECT for an identical row (cache.py
\* lines 89-95).  The call of the prover touches nothing shared, so it is
\* taken together with the SELECT that follows it.
TaskProve(n) ==
    /\ n \in 1..Len(tasks)
    /\ tasks[n].state = "proving"
    /\ ~tasks[n].benchmark_mode
    /\ LET t == tasks[n]
           ax == t.all_axioms
           budget == IF t.timeout_override # 0 THEN t.timeout_override ELSE 5
           called == Append(t.calls, <<t.prover_instance, budget, ax>>)
       IN \/ \* the adapter raises
             tasks' = [tasks EXCEPT ![n] = [t EXCEPT !.state = "raised", !.calls = called]]
          \/ \E res \in ProverResults(t.prover_instance, ax) :
             \E uh \in used_hashes_of(res, ax) :
               LET fch == full_context_hash(ax, t.goal_repr)
                   args == IF res.success
                           THEN Row(goal_hash(t.goal_repr), uh, TRUE, fch)
                           ELSE Row(goal_hash(t.goal_repr), <<>>, FALSE, fch)
                   out == [is_cached |-> FALSE, success |-> res.success,
                           benchmark_info |-> <<>>]
               IN tasks' = [tasks EXCEPT ![n] =
                    IF UsesCache(t) /\ ~has_identical(store, args)
                    THEN [t EXCEPT !.state = "insert", !.calls = called,
                                   !.result = res, !.save_args = args, !.ret = out]
                    ELSE [t EXCEPT !.state = "done", !.calls = called, !.ret = out]]
    /\ UNCHANGED <<body, installed, fnVars, streamVars, cache_directive, cacheVars, engineVars, proofVars>>

\* verify_task returns ret: its locals are gone
Returned(t) == [t EXCEPT !.state = "done", !.result = NoResult, !.save_args = NoRow]

Obligation(t) ==
    [premises |-> available_hashes_set(t.all_axioms), goal |-> goal_hash(t.goal_repr)]

\* save_proof, lines 97-100: the INSERT, in its own implicit transaction
SaveInsert(n) ==
    /\ n \in 1..Len(tasks)
    /\ tasks[n].state = "insert"
    /\ Len(store) < MaxRows
    /\ store' = Append(store, tasks[n].save_args)
    /\ stored_under' = Append(stored_under, Obligation(tasks[n]))
    /\ tasks' = [tasks EXCEPT ![n] = Returned(tasks[n])]
    /\ UNCHANGED <<body, installed, fnVars, streamVars, cache_directive, engineVars, proofVars>>

\* lines 77-92, benchmark mode: every registered prover is run once with a
\* budget of one second; nothing is read from or written to the cache
TaskBenchmark(n) ==
    /\ n \in 1..Len(tasks)
    /\ tasks[n].state = "proving"
    /\ tasks[n].benchmark_mode
    /\ LET t == tasks[n]
           called == t.calls \o [k \in 1..Len(AllProvers) |-> <<AllProvers[k], 1, t.all_axioms>>]
       IN \/ \* an adapter raises
             tasks' = [tasks EXCEPT ![n] = [t EXCEPT !.state = "raised"]]
          \/ \E ok \in [ProverNames -> BOOLEAN], tm \in [ProverNames -> 1..MaxTime] :
               LET results == [p \in ProverNames |-> [success |-> ok[p], time |-> tm[p]]]
               IN /\ \A p \in ProverNames :
                        \E res \in ProverResults(p, t.all_axioms) : res.success = ok[p]
                  /\ tasks' = [tasks EXCEPT ![n] =
                    [t EXCEPT !.state = "done", !.calls = called,
                              !.ret = [is_cached |-> FALSE,
                                       success |-> \E p \in ProverNames : results[p].success,
                                       benchmark_info |-> results]]]
    /\ UNCHANGED <<body, installed, fnVars, streamVars, cache_directive, cacheVars, engineVars, proofVars>>

Lookup == \E n \in 1..Len(tasks) : TaskLookup(n)
Prove == \E n \in 1..Len(tasks) : TaskProve(n)
Benchmark == \E n \in 1..Len(tasks) : TaskBenchmark(n)
Insert == \E n \in 1..Len(tasks) : SaveInsert(n)

\* ------------------------------------------- a driver of verify_task
\* verify_task called with its default flags, one call after the other, for
\* obligations over a small set of premises and goals
DriverObligations ==
    {<< <<>>, G_1 >>,
     << << <<Name("ax", 0), F_px>> >>, G_1 >>,
     << << <<Name("ax", 0), F_pX>> >>, G_1 >>,
     << << <<Name("ax", 0), F_px>>, <<Name("ax", 1), F_q>> >>, G_1 >>,
     << << <<Name("ax", 0), F_px>> >>, G_2 >>}

DriverCall ==
    /\ pc = "idle"
    /\ tasks = <<>>
    /\ \E ob \in DriverObligations :
         tasks' = <<Task(1, Copy(ob[1]), Copy(<<>>), Copy(<<>>), ob[2], "vampire", TRUE, FALSE, 0)>>
    /\ UNCHANGED <<body, installed, fnVars, streamVars, cache_directive, cacheVars, engineVars, proofVars>>

DriverReturn ==
    /\ pc = "idle"
    /\ tasks # <<>>
    /\ \A k \in 1..Len(tasks) : Finished(tasks[k])
    /\ tasks' = <<>>
    /\ UNCHANGED <<body, installed, fnVars, streamVars, cache_directive, cacheVars, engineVars, proofVars>>

\* verify_task submitted to a pool, as check_proof submits it, for
\* obligations with one conjecture and the same premise formula: once,
\* under another name, and twice
WorkerObligations ==
    {<< << <<Name("ax", 0), F_px>> >>, G_1 >>,
     << << <<Name("step", 0), F_px>> >>, G_1 >>,
     << << <<Name("ax", 0), F_px>>, <<Name("step", 0), F_px>> >>, G_1 >>}

DriverSubmit ==
    /\ pc = "idle"
    /\ Len(tasks) < MaxSteps
    /\ \A k \in 1..Len(tasks) : ~Finished(tasks[k])
    /\ \E ob \in WorkerObligations :
         tasks' = Append(tasks, Task(Len(tasks) + 1, Copy(ob[1]), Copy(<<>>), Copy(<<>>), ob[2], "vampire", TRUE, FALSE, 0))
    /\ UNCHANGED <<body, installed, fnVars, streamVars, cache_directive, cacheVars, engineVars, proofVars>>

\* ----------------------------------------------------------------- Engine
F_false == 0
NoGoal == 0 - 1

\* Engine._add_builtin_axioms
BuiltinAxioms ==
    << <<Name("builtin_setminus", 0), 1>>, <<Name("builtin_cap", 0), 2>>,
       <<Name("builtin_cup", 0), 3>>, <<Name("builtin_empty", 0), 4>>,
       <<Name("builtin_singleton", 0), 5>>, <<Name("builtin_set_enum", 0), 6>>,
       <<Name("builtin_pair_eq", 0), 7>> >>

\* the formulas of the built-in axioms
X_set == Variable("X_set")
A_set == Variable("A_set")
B_set == Variable("B_set")
Y_sing == Variable("Y_sing")
Z_enum == Variable("Z_enum")
In(left, right) == Predicate("in", <<left, right>>)
BuiltinFormula ==
    << Quantifier("forall", <<"X_set", "A_set", "B_set">>,
           Iff(In(X_set, Function("setminus", <<A_set, B_set>>)),
               And(In(X_set, A_set), Not(In(X_set, B_set))))),
       Quantifier("forall", <<"X_set", "A_set", "B_set">>,
           Iff(In(X_set, Function("cap", <<A_set, B_set>>)),
               And(In(X_set, A_set), In(X_set, B_set)))),
       Quantifier("forall", <<"X_set", "A_set", "B_set">>,
           Iff(In(X_set, Function("cup", <<A_set, B_set>>)),
               Or(In(X_set, A_set), In(X_set, B_set)))),
       Quantifier("forall", <<"X_set">>, Not(In(X_set, Constant("empty_set")))),
       Quantifier("forall", <<"X_set", "Y_sing">>,
           Iff(In(X_set, Function("singleton", <<Y_sing>>)), Equal(X_set, Y_sing))),
       Quantifier("forall", <<"X_set", "Y_sing", "Z_enum">>,
           Iff(In(X_set, Function("set_enum", <<Y_sing, Z_enum>>)),
               Or(Equal(X_set, Y_sing), Equal(X_set, Z_enum)))),
       Quantifier("forall", <<"Va", "Vb", "Vc", "Vd">>,
           Implies(Equal(Function("pair", <<Variable("Va"), Variable("Vb")>>),
                         Function("pair", <<Variable("Vc"), Variable("Vd")>>)),
                   And(Equal(Variable("Va"), Variable("Vc")),
                       Equal(Variable("Vb"), Variable("Vd"))))) >>

\* the contents of the blocks and top-level sentences of the texts, with
\* what parse_math makes of their formulas:
\*   1  $P(x) \implies Q(x)$.
\*   2  Assume $x \in A$. Then $x = 1$.
\*   3  Assume $0 < 1$. Assume $1 < 2$. Foo bar.
\*   4  $1 = 1$.
\*   5  Foo bar.
Blocks ==
    << <<BlockSentence(FALSE, Implies(Function("P", <<Variable("x")>>),
                                      Function("Q", <<Variable("x")>>)))>>,
       <<BlockSentence(TRUE, In(Variable("x"), Variable("A"))),
         BlockSentence(FALSE, Equal(Variable("x"), Constant("'1'")))>>,
       <<BlockSentence(TRUE, Predicate("less", <<Constant("'0'"), Constant("'1'")>>)),
         BlockSentence(TRUE, Predicate("less", <<Constant("'1'"), Constant("'2'")>>)),
         BlockSentence(FALSE, NoAst)>>,
       <<BlockSentence(FALSE, Equal(Constant("'1'"), Constant("'1'")))>>,
       <<BlockSentence(FALSE, NoAst)>> >>

\* a Statement of logic/models.py: its class (or "read" for that
\* Directive), its content and, for a read directive, its argument
Statement(kind, block, path) == [kind |-> kind, block |-> block, path |-> path]
NoStatement == Statement("", 0, "")
Read(path) == Statement("read", 0, path)

\* Translator.translate_statement
translate_statement(stmt) ==
    IF stmt.kind = "Sentence" THEN translate_statement_sentence(Blocks[stmt.block][1])
    ELSE IF stmt.kind \in {"Definition", "Axiom", "Lemma", "Theorem"}
         THEN translate_block(Blocks[stmt.block])
         ELSE <<>>

\* the formula objects translate_statement returns for a statement with
\* content Blocks[block], numbered apart from the other formulas
FormulaId(block, j) == 100 + 10 * block + j

\* the formula objects check_proof makes of the working goal goal_f: the
\* focus the decomposition ends with, where that is not the goal itself,
\* the j-th left side it assumes, and Not(f) for the focus f
FocusId(goal_f) == 2000 + goal_f
LeftId(goal_f, j) == 10000 + 10 * goal_f + j
F_not(f) == 100000 + f

RECURSIVE Ast(_)
Ast(f) ==
    IF f \in 1..Len(BuiltinFormula) THEN BuiltinFormula[f]
    ELSE IF f >= 100000 THEN Not(Ast(f - 100000))
    ELSE IF f >= 10000
    THEN Decompose(Ast((f - 10000) \div 10), <<>>).left[(f - 10000) % 10]
    ELSE IF f >= 2000 THEN Decompose(Ast(f - 2000), <<>>).focus
    ELSE translate_block(Blocks[(f - 100) \div 10])[(f - 100) % 10]

\* check_proof, lines 415-445: the focus and the proof context the
\* decomposition of the working goal goal_f gives
Decomposed(goal_f) ==
    IF goal_f = NoGoal THEN [focus |-> NoGoal, left |-> <<>>]
    ELSE LET d == Decompose(Ast(goal_f), <<>>)
         IN [focus |-> IF d.focus = Ast(goal_f) THEN goal_f ELSE FocusId(goal_f),
             left |-> [j \in 1..Len(d.left) |-> LeftId(goal_f, j)]]

\* the files under base_path
Paths == {"a.ftl", "b.ftl"}
NoFile == [exists |-> FALSE, stmts |-> <<>>]
File(stmts) == [exists |-> TRUE, stmts |-> stmts]
NoFiles == [p \in Paths |-> NoFile]
FileSystems ==
    { [p \in Paths |-> IF p = "a.ftl"
                       THEN File(<<Read("a.ftl"), Statement("Theorem", 1, ""),
                                   Statement("Proof", 0, "")>>)
                       ELSE NoFile],
      [p \in Paths |-> IF p = "a.ftl"
                       THEN File(<<Read("b.ftl"), Statement("Theorem", 3, "")>>)
                       ELSE File(<<Read("a.ftl"), Statement("Axiom", 2, ""),
                                   Statement("Theorem", 5, "")>>)] }

\* the statements of the main file
MainStatements ==
    {Read(p) : p \in Paths}
    \cup {Statement("Definition", 2, ""), Statement("Sentence", 1, ""),
          Statement("Sentence", 5, ""), Statement("Theorem", 3, ""),
          Statement("Theorem", 4, ""), Statement("Theorem", 5, ""),
          Statement("Lemma", 4, "")}

\* no function called on its own
NoCall == <<>>
NoResultYet == <<>>
FnIdle == fn_args = NoCall /\ fn_result = NoResultYet

\* no statement processed and no file being included
StreamIdle ==
    /\ include_stack = <<>> /\ loaded = <<>>
    /\ last_stmt = NoStatement /\ done = 0
    /\ context_before = 0

\* the locals of check_proof while the main thread is not in check_proof
ProofIdle ==
    /\ cache_directive = ""
    /\ body = <<>>
    /\ pc = "idle" /\ i = 0 /\ reporting = 0
    /\ proof_context = <<>> /\ scope_stack = <<>>
    /\ current_prover = "vampire" /\ focus = NoGoal
    /\ reported = <<>>

\* Engine.__init__
EngineInit(use_cache, benchmark) ==
    /\ axioms = BuiltinAxioms /\ context = <<>> /\ counter = 0
    /\ processed_files = {}
    /\ global_use_cache = use_cache /\ current_cache_enabled = use_cache
    /\ benchmark_mode = benchmark
    /\ active_prover_name = "vampire"
    /\ timelimit = 5
    /\ current_goal = NoGoal

\* a further run on the same cache file: Engine(use_cache, benchmark)
NewEngine ==
    /\ pc = "idle"
    /\ \E use_cache \in BOOLEAN, benchmark \in BOOLEAN :
        /\ axioms' = BuiltinAxioms /\ context' = <<>> /\ counter' = 0
        /\ global_use_cache' = use_cache /\ current_cache_enabled' = use_cache
        /\ benchmark_mode' = benchmark
        /\ active_prover_name' = "vampire"
        /\ timelimit' = 5
        /\ current_goal' = NoGoal
    /\ processed_files' = {}
    /\ cache_directive' = ""
    /\ UNCHANGED <<body, installed, fnVars, files, include_stack, loaded, last_stmt, done, context_before, cacheVars, tasks, proofVars>>

\* a cache directive whose "on" does not ask the global flag
DirectiveCache_on_enables ==
    /\ pc = "idle"
    /\ \E arg \in {"on", "off"} :
         /\ current_cache_enabled' = (arg = "on")
         /\ cache_directive' = arg
    /\ UNCHANGED <<body, installed, fnVars, streamVars, cacheVars, tasks, proofVars, global_use_cache,
                   benchmark_mode, active_prover_name, timelimit, axioms,
                   context, counter, current_goal>>

\* process_statement, Directive "cache"
DirectiveCache ==
    /\ pc = "idle"
    /\ \E arg \in {"on", "off"} :
         /\ current_cache_enabled' = IF arg = "on" THEN global_use_cache ELSE FALSE
         /\ cache_directive' = arg
    /\ UNCHANGED <<body, installed, fnVars, streamVars, cacheVars, tasks, proofVars, global_use_cache, benchmark_mode,
                   active_prover_name, timelimit, axioms, context, counter,
                   current_goal>>

\* process_statement, Directive "prover": ProverManager.set_active_prover
DirectiveProver ==
    /\ pc = "idle"
    /\ \E prover_name \in ProverNames \cup {"z3"} :
         active_prover_name' = IF prover_name \in ProverNames
                               THEN prover_name ELSE active_prover_name
    /\ UNCHANGED <<body, installed, fnVars, streamVars, cache_directive, cacheVars, tasks, proofVars, global_use_cache,
                   current_cache_enabled, benchmark_mode, timelimit, axioms,
                   context, counter, current_goal>>

\* the arguments timelimit directives are written with; float(arg) raises
\* ValueError for the last one
TimelimitArgs == {"0", "2", "soon"}
IsFloat(arg) == arg \in {"0", "2"}
float(arg) == IF arg = "0" THEN 0 ELSE 2

\* process_statement, Directive "timelimit"
DirectiveTimelimit ==
    /\ pc = "idle"
    /\ \E arg \in TimelimitArgs :
         timelimit' = IF IsFloat(arg) THEN float(arg) ELSE timelimit
    /\ UNCHANGED <<body, installed, fnVars, streamVars, cache_directive, cacheVars, tasks, proofVars,
                   global_use_cache, current_cache_enabled, benchmark_mode,
                   active_prover_name, axioms, context, counter, current_goal>>

\* translate_sentence returned None
NoFormula == 0 - 2

\* a Sentence of a proof body with what translate_sentence makes of it
Sentence(atoms, f) == [atoms |-> atoms, f |-> f]

\* the sentences a proof body is written with: a case that translates and
\* one that does not, the two closing forms, an ordinary step, a
\* contradiction, words that translate to nothing, with and without one of
\* the words End, qed, Proof among them, and the marker qed
BodySentences ==
    {Sentence(<<"Case", "$q$">>, F_q), Sentence(<<"Case", "foo">>, NoFormula),
     Sentence(<<"End">>, NoFormula), Sentence(<<"Case", "End">>, NoFormula),
     Sentence(<<"$g$">>, G_1), Sentence(<<"Contradiction">>, F_false),
     Sentence(<<"foo">>, NoFormula), Sentence(<<"The", "Proof">>, NoFormula),
     Sentence(<<"qed">>, NoFormula)}

\* Predicate("contrary", [])
F_contrary == 0 - 3

\* sentences whose text begins with Assume: an assumption, one whose words
\* translate to false(), and the one that translates to contrary()
AssumptionSentences ==
    {Sentence(<<"Assume", "$q$">>, F_q),
     Sentence(<<"Assume", "a", "contradiction">>, F_false),
     Sentence(<<"Assume", "the", "contrary">>, F_contrary)}

ProofSentences == BodySentences \cup AssumptionSentences

\* a case whose words translate to contrary() (_translate_logic, lines
\* 527-528: Assume and contrary are among the atoms), and one that translates
CaseSentences ==
    {Sentence(<<"Case", "Assume", "the", "contrary">>, F_contrary),
     Sentence(<<"Case", "$q$">>, F_q)}

\* a Directive among proof.content
DirectiveStatement == Sentence(<<"[">>, NoFormula)

\* history: the statement is processed, proof_context being what it is
Processed(s) ==
    Append(body, [atoms |-> s.atoms, f |-> s.f, before |-> proof_context])

\* is_case
IsCase(s) == s.atoms[1] = "Case"

\* atoms[0] == "End" or (atoms[0] == "Case" and atoms[1] == "End")
IsEnd(s) ==
    \/ s.atoms[1] = "End"
    \/ Len(s.atoms) > 1 /\ s.atoms[1] = "Case" /\ s.atoms[2] = "End"

\* no sentence is taken for an assumption
IsAssumption_never(s) == FALSE

\* is_assumption: text.startswith("Assume") or ... "Let", "Take", "Define",
\* "Consider"
IsAssumption(s) == s.atoms[1] \in {"Assume", "Let", "Take", "Define", "Consider"}

\* "End" in atoms or "qed" in atoms or "Proof" in atoms
HasMarker(s) == Range(s.atoms) \cap {"End", "qed", "Proof"} # {}

\* a Proof of the main file (process_statement, lines 404-409), then
\* check_proof, lines 411-450
ProofBegin ==
    /\ pc = "idle"
    /\ include_stack = <<>>
    /\ counter < MaxCounter
    /\ pc' = "steps"
    /\ LET d == Decomposed(current_goal)
       IN /\ proof_context' = [j \in 1..Len(d.left) |->
                                 <<Name("goal_assump", counter + j - 1), d.left[j]>>]
          /\ counter' = counter + Len(d.left)
          /\ focus' = d.focus
    /\ scope_stack' = <<>>
    /\ tasks' = <<>>
    /\ current_prover' = active_prover_name
    /\ i' = 0
    /\ body' = <<>>
    /\ UNCHANGED <<installed, fnVars, streamVars, cache_directive, cacheVars, reporting, reported,
                   global_use_cache, current_cache_enabled, benchmark_mode,
                   active_prover_name, timelimit, axioms, context, current_goal>>

\* a submission that passes proof_context itself instead of a copy of it
Submit_shared_proof_context(step_num, goal_f) ==
    Append(tasks, Task(step_num, Ref("self.axioms"), Ref("self.context"), Ref("proof_context"), goal_f, current_prover, current_cache_enabled, benchmark_mode, timelimit))

\* executor.submit(verify_task, self.axioms, self.context, ctx_copy, ...)
Submit(step_num, goal_f) ==
    Append(tasks, Task(step_num, Ref("self.axioms"), Ref("self.context"), Copy(proof_context), goal_f, current_prover, current_cache_enabled, benchmark_mode, timelimit))

\* check_proof, lines 546-563: any other sentence, translated to f
StepVerify ==
    /\ pc = "steps" /\ i < MaxBody /\ Len(tasks) < MaxSteps
    /\ \E s \in ProofSentences :
        /\ ~IsEnd(s) /\ s.f # NoFormula /\ ~IsCase(s)
        /\ s.f # F_contrary /\ s.f # F_false /\ ~IsAssumption(s)
        /\ tasks' = Submit(i + 1, s.f)
        /\ proof_context' = Append(proof_context, <<Name("step", i), s.f>>)
        /\ body' = Processed(s)
    /\ i' = i + 1
    /\ UNCHANGED <<installed, fnVars, streamVars, cache_directive, cacheVars, engineVars, pc, reporting, scope_stack,
                   current_prover, focus, reported>>

\* check_proof, lines 454-461: a cache or prover directive in the proof body
\* is passed over
StepDirective ==
    /\ pc = "steps" /\ i < MaxSteps
    /\ \E name \in {"cache", "prover"}, arg \in {"on", "off"} :
         cache_directive' = IF name = "cache" THEN arg ELSE cache_directive
    /\ body' = Processed(DirectiveStatement)
    /\ i' = i + 1
    /\ UNCHANGED <<installed, fnVars, streamVars, cacheVars, tasks, engineVars, pc, reporting,
                   proof_context, scope_stack, current_prover, focus, reported>>

\* the directives of a proof body
ProofDirectives ==
    {<<"timelimit", "2">>, <<"timelimit", "soon">>, <<"prover", "eprover">>,
     <<"prover", "vampire">>, <<"cache", "off">>, <<"cache", "on">>}

\* a Directive among proof.content, with its name and argument
Directive(name, arg) == Sentence(<<"[", name, arg>>, NoFormula)

\* check_proof, lines 454-461: a directive in the proof body; timelimit
\* sets self.timelimit, every other one is passed over
StepDirectiveNamed ==
    /\ pc = "steps" /\ i < MaxBody
    /\ \E d \in ProofDirectives :
         /\ timelimit' = IF d[1] = "timelimit" /\ IsFloat(d[2]) THEN float(d[2]) ELSE timelimit
         /\ body' = Processed(Directive(d[1], d[2]))
    /\ i' = i + 1
    /\ UNCHANGED <<installed, fnVars, streamVars, cache_directive, cacheVars, tasks, pc, reporting,
                   proof_context, scope_stack, current_prover, focus, reported,
                   global_use_cache, current_cache_enabled, benchmark_mode,
                   active_prover_name, axioms, context, counter, current_goal>>

\* check_proof, lines 477-482: End, or Case End, closes the scope
StepEnd ==
    /\ pc = "steps" /\ i < MaxBody
    /\ \E s \in BodySentences :
        /\ IsEnd(s)
        /\ body' = Processed(s)
    /\ IF scope_stack # <<>>
       THEN /\ proof_context' = scope_stack[Len(scope_stack)]
            /\ scope_stack' = SubSeq(scope_stack, 1, Len(scope_stack) - 1)
       ELSE UNCHANGED <<proof_context, scope_stack>>
    /\ i' = i + 1
    /\ UNCHANGED <<installed, fnVars, streamVars, cache_directive, cacheVars, tasks, engineVars, pc,
                   reporting, current_prover, focus, reported>>

\* reporter.error(f"Step {i + 1}: Could not translate '{s.text}'")
CouldNotTranslate(step_num) ==
    [call |-> "error", step_num |-> step_num, success |-> FALSE,
     source |-> "Could not translate", benchmark_info |-> <<>>]

\* check_proof, lines 484-492: the sentence has no translation
StepUntranslatable ==
    /\ pc = "steps" /\ i < MaxBody
    /\ \E s \in BodySentences :
        /\ ~IsEnd(s) /\ s.f = NoFormula
        /\ body' = Processed(s)
        /\ reported' = IF HasMarker(s) THEN reported
                       ELSE Append(reported, CouldNotTranslate(i + 1))
    /\ i' = i + 1
    /\ UNCHANGED <<installed, fnVars, streamVars, cache_directive, cacheVars, tasks, engineVars, pc,
                   reporting, proof_context, scope_stack, current_prover, focus>>

\* check_proof, lines 494-500: a Case sentence opens a scope
Case(sentences) ==
    /\ pc = "steps" /\ i < MaxBody
    /\ \E s \in sentences :
        /\ ~IsEnd(s) /\ s.f # NoFormula /\ IsCase(s)
        /\ scope_stack' = Append(scope_stack, proof_context)
        /\ proof_context' = Append(proof_context, <<Name("step", i), s.f>>)
        /\ body' = Processed(s)
    /\ i' = i + 1
    /\ UNCHANGED <<installed, fnVars, streamVars, cache_directive, cacheVars, tasks, engineVars, pc,
                   reporting, current_prover, focus, reported>>

StepCase == Case(BodySentences)

\* the same over the sentences that begin with Case and have the words
\* Assume and contrary among them
StepCaseContrary == Case(CaseSentences)

\* check_proof, lines 454-461: a timelimit directive in the proof body
StepTimelimit ==
    /\ pc = "steps" /\ i < MaxSteps
    /\ \E arg \in TimelimitArgs :
         timelimit' = IF IsFloat(arg) THEN float(arg) ELSE timelimit
    /\ body' = Processed(DirectiveStatement)
    /\ i' = i + 1
    /\ UNCHANGED <<installed, fnVars, streamVars, cache_directive, cacheVars, tasks, pc, reporting,
                   proof_context, scope_stack, current_prover, focus, reported,
                   global_use_cache, current_cache_enabled, benchmark_mode,
                   active_prover_name, axioms, context, counter, current_goal>>

\* check_proof, lines 526-541: a sentence translated to false()
Contradiction(sentences) ==
    /\ pc = "steps" /\ i < MaxSteps
    /\ \E s \in sentences :
        /\ ~IsEnd(s) /\ ~IsCase(s) /\ s.f = F_false
        /\ body' = Processed(s)
    /\ tasks' = Submit(i + 1, F_false)
    /\ i' = i + 1
    /\ UNCHANGED <<installed, fnVars, streamVars, cache_directive, cacheVars, engineVars, pc, reporting, proof_context,
                   scope_stack, current_prover, focus, reported>>

StepContradiction == Contradiction(BodySentences)

\* the same for a body that has sentences beginning with Assume
StepContradictionAssumed == Contradiction(ProofSentences)

\* reporter.error("Cannot assume contrary: No current goal.")
CannotAssumeContrary ==
    [call |-> "error", step_num |-> 0, success |-> FALSE,
     source |-> "Cannot assume contrary", benchmark_info |-> <<>>]

\* check_proof, lines 512-524: a sentence translated to contrary()
StepContrary ==
    /\ pc = "steps" /\ i < MaxBody
    /\ \E s \in ProofSentences :
        /\ ~IsEnd(s) /\ ~IsCase(s) /\ s.f = F_contrary
        /\ body' = Processed(s)
    /\ IF focus # NoGoal
       THEN /\ proof_context' = Append(proof_context, <<Name("step", i), F_not(focus)>>)
            /\ UNCHANGED reported
       ELSE /\ reported' = Append(reported, CannotAssumeContrary)
            /\ UNCHANGED proof_context
    /\ i' = i + 1
    /\ UNCHANGED <<installed, fnVars, streamVars, cache_directive, cacheVars, tasks, engineVars, pc,
                   reporting, scope_stack, current_prover, focus>>

\* check_proof, lines 543-545: an assumption
StepAssumption ==
    /\ pc = "steps" /\ i < MaxBody
    /\ \E s \in ProofSentences :
        /\ ~IsEnd(s) /\ s.f # NoFormula /\ ~IsCase(s)
        /\ s.f # F_contrary /\ s.f # F_false /\ IsAssumption(s)
        /\ proof_context' = Append(proof_context, <<Name("step", i), s.f>>)
        /\ body' = Processed(s)
    /\ i' = i + 1
    /\ UNCHANGED <<installed, fnVars, streamVars, cache_directive, cacheVars, tasks, engineVars, pc,
                   reporting, scope_stack, current_prover, focus, reported>>

\* check_proof, line 565: the body is exhausted
ProofSubmitted ==
    /\ pc = "steps"
    /\ pc' = "wait"
    /\ reporting' = 1
    /\ UNCHANGED <<body, installed, fnVars, streamVars, cache_directive, cacheVars, tasks, engineVars, i, proof_context, scope_stack,
                   current_prover, focus, reported>>

\* f"({current_prover.name})"
Label(name) == "(" \o name \o ")"

\* a source label that does not look at is_cached
Source_prover_name(t) ==
    IF benchmark_mode THEN "(Benchmark)" ELSE Label(current_prover)

Source(t) ==
    IF benchmark_mode THEN "(Benchmark)"
    ELSE IF t.ret.is_cached THEN "(Cached)" ELSE Label(current_prover)

ReportOf(t) ==
    IF t.state = "raised"
    THEN [call |-> "error", step_num |-> t.step_num, success |-> FALSE,
          source |-> "", benchmark_info |-> <<>>]
    ELSE [call |-> "step_verified", step_num |-> t.step_num,
          success |-> t.ret.success, source |-> Source(t),
          benchmark_info |-> t.ret.benchmark_info]

\* float('inf'): above every duration
inf == MaxTime + 1

\* StdoutReporter.step_verified, lines 147-156: the loop over
\* benchmark_info.items(), which are in the order the provers were run
RECURSIVE best_prover_from(_, _, _, _)
best_prover_from_last_minimum(benchmark_info, k, best_prover, min_time) ==
    IF k > Len(AllProvers) THEN best_prover
    ELSE LET data == benchmark_info[AllProvers[k]]
         IN IF data.success /\ data.time <= min_time
            THEN best_prover_from(benchmark_info, k + 1, AllProvers[k], data.time)
            ELSE best_prover_from(benchmark_info, k + 1, best_prover, min_time)

best_prover_from(benchmark_info, k, best_prover, min_time) ==
    IF k > Len(AllProvers) THEN best_prover
    ELSE LET data == benchmark_info[AllProvers[k]]
         IN IF data.success /\ data.time < min_time
            THEN best_prover_from(benchmark_info, k + 1, AllProvers[k], data.time)
            ELSE best_prover_from(benchmark_info, k + 1, best_prover, min_time)

\* the prover named in "Suggestion: Use [prover ...]", None when no
\* suggestion is printed
Suggestion(benchmark_info) ==
    IF DOMAIN benchmark_info = {} THEN None
    ELSE best_prover_from(benchmark_info, 1, None, inf)

\* a report loop that takes the futures as they complete
Report_as_completed ==
    /\ pc = "wait"
    /\ reporting <= Len(tasks)
    /\ \E n \in 1..Len(tasks) :
         /\ Finished(tasks[n])
         /\ \A k \in 1..Len(reported) : reported[k].step_num # tasks[n].step_num
         /\ reported' = Append(reported, ReportOf(tasks[n]))
    /\ reporting' = reporting + 1
    /\ UNCHANGED <<body, installed, fnVars, streamVars, cache_directive, cacheVars, tasks, engineVars, pc, i,
                   proof_context, scope_stack, current_prover, focus>>

\* check_proof, lines 566-587: future.result() of the next future, then
\* step_verified, or error when the task raised
Report ==
    /\ pc = "wait"
    /\ reporting <= Len(tasks)
    /\ Finished(tasks[reporting])
    /\ reported' = Append(reported, ReportOf(tasks[reporting]))
    /\ reporting' = reporting + 1
    /\ UNCHANGED <<body, installed, fnVars, streamVars, cache_directive, cacheVars, tasks, engineVars, pc, i, proof_context,
                   scope_stack, current_prover, focus>>

\* a report loop without the try/except: an exception of future.result()
\* leaves check_proof
ProofEnd_on_raise ==
    /\ pc = "wait"
    /\ \/ reporting > Len(tasks)
       \/ reporting <= Len(tasks) /\ tasks[reporting].state = "raised"
    /\ tasks' = <<>>
    /\ pc' = "idle" /\ i' = 0 /\ reporting' = 0
    /\ proof_context' = <<>> /\ scope_stack' = <<>>
    /\ current_prover' = "vampire" /\ focus' = NoGoal
    /\ reported' = <<>>
    /\ body' = <<>>
    /\ UNCHANGED <<installed, fnVars, streamVars, cache_directive, cacheVars, engineVars>>

\* check_proof returns: the for loop over tasks is over, the pool shuts down
ProofEnd ==
    /\ pc = "wait"
    /\ reporting > Len(tasks)
    /\ tasks' = <<>>
    /\ pc' = "idle" /\ i' = 0 /\ reporting' = 0
    /\ proof_context' = <<>> /\ scope_stack' = <<>>
    /\ current_prover' = "vampire" /\ focus' = NoGoal
    /\ reported' = <<>>
    /\ body' = <<>>
    /\ UNCHANGED <<installed, fnVars, streamVars, cache_directive, cacheVars, engineVars>>

\* ------------------------------------------- Engine.process_statement
\* whether check was called with is_included=True
is_included == include_stack # <<>>

Frame(path) == [path |-> path, pos |-> 1]
Top == include_stack[Len(include_stack)]

\* the statement the loop of check is at: the next one of the file being
\* included, or any next statement of the main file
NextStatements ==
    IF is_included
    THEN IF Top.pos <= Len(files[Top.path].stmts)
         THEN {files[Top.path].stmts[Top.pos]}
         ELSE {}
    ELSE IF done < MaxStmts THEN MainStatements ELSE {}

\* the loop of check moves on to the statement after this one
Advance(stack) ==
    IF stack = <<>> THEN stack
    ELSE [stack EXCEPT ![Len(stack)].pos = @ + 1]

\* process_statement is called with stmt
Called(stmt) == last_stmt' = stmt /\ done' = done + 1

\* for f in formulas: self.axioms.append((f"{kind}_{self.counter}", f))
AddAxioms(kind, block, first, last) ==
    axioms \o [j \in 1..(last - first + 1) |->
                  <<Name(kind, counter + j - 1), FormulaId(block, first + j - 1)>>]

\* a Definition, an Axiom or a Lemma
StatementBlock ==
    /\ pc = "idle"
    /\ \E stmt \in NextStatements :
        /\ stmt.kind \in {"Definition", "Axiom", "Lemma"}
        /\ LET formulas == translate_statement(stmt)
           IN /\ axioms' = AddAxioms("ax", stmt.block, 1, Len(formulas))
              /\ counter' = counter + Len(formulas)
        /\ Called(stmt)
    /\ include_stack' = Advance(include_stack)
    /\ UNCHANGED <<body, installed, fnVars, cache_directive, cacheVars, tasks, proofVars,
                   global_use_cache, current_cache_enabled, benchmark_mode,
                   active_prover_name, timelimit, context, current_goal,
                   files, processed_files, loaded, context_before>>

\* a top-level Sentence
StatementSentence ==
    /\ pc = "idle"
    /\ \E stmt \in NextStatements :
        /\ stmt.kind = "Sentence"
        /\ LET formulas == translate_statement(stmt)
           IN /\ axioms' = AddAxioms("ax", stmt.block, 1, Len(formulas))
              /\ counter' = counter + Len(formulas)
        /\ Called(stmt)
    /\ include_stack' = Advance(include_stack)
    /\ UNCHANGED <<body, installed, fnVars, cache_directive, cacheVars, tasks, proofVars,
                   global_use_cache, current_cache_enabled, benchmark_mode,
                   active_prover_name, timelimit, context, current_goal,
                   files, processed_files, loaded, context_before>>

\* a Theorem: imported as an axiom from an included file, else it sets the
\* goal and the context
StatementTheorem ==
    /\ pc = "idle"
    /\ \E stmt \in NextStatements :
        /\ stmt.kind = "Theorem"
        /\ LET formulas == translate_statement(stmt)
               n == Len(formulas)
           IN IF is_included
              THEN /\ axioms' = IF n > 0 THEN AddAxioms("thm", stmt.block, n, n) ELSE axioms
                   /\ counter' = IF n > 0 THEN counter + 1 ELSE counter
                   /\ UNCHANGED <<current_goal, context>>
              ELSE IF n = 0
              THEN UNCHANGED <<axioms, counter, current_goal, context>>
              ELSE /\ current_goal' = FormulaId(stmt.block, n)
                   /\ context' = context \o [j \in 1..(n - 1) |->
                                    <<Name("ctx", counter + j - 1), FormulaId(stmt.block, j)>>]
                   /\ counter' = counter + (n - 1)
                   /\ UNCHANGED axioms
        /\ Called(stmt)
    /\ include_stack' = Advance(include_stack)
    /\ context_before' = IF is_included THEN context_before ELSE Len(context)
    /\ UNCHANGED <<body, installed, fnVars, cache_directive, cacheVars, tasks, proofVars,
                   global_use_cache, current_cache_enabled, benchmark_mode,
                   active_prover_name, timelimit, files, processed_files, loaded>>

\* a Proof of an included file
StatementProofIncluded ==
    /\ pc = "idle"
    /\ is_included
    /\ \E stmt \in NextStatements :
        /\ stmt.kind = "Proof"
        /\ Called(stmt)
    /\ include_stack' = Advance(include_stack)
    /\ UNCHANGED <<body, installed, fnVars, cache_directive, cacheVars, tasks, proofVars,
                   engineVars, files, processed_files, loaded, context_before>>

\* process_file that does not look its path up
AlreadyProcessed_never(filepath) == FALSE

\* process_file: if filepath in self.processed_files
AlreadyProcessed(filepath) == filepath \in processed_files

\* a read directive: process_file up to its call of check
DirectiveRead ==
    /\ pc = "idle"
    /\ \E stmt \in NextStatements :
        /\ stmt.kind = "read"
        /\ IF AlreadyProcessed(stmt.path)
           THEN /\ include_stack' = Advance(include_stack)
                /\ UNCHANGED <<processed_files, loaded>>
           ELSE /\ processed_files' = processed_files \cup {stmt.path}
                /\ IF ~files[stmt.path].exists
                   THEN /\ include_stack' = Advance(include_stack)
                        /\ UNCHANGED loaded
                   ELSE /\ loaded' = Append(loaded, stmt.path)
                        /\ include_stack' = Append(Advance(include_stack), Frame(stmt.path))
        /\ Called(stmt)
    /\ UNCHANGED <<body, installed, fnVars, cache_directive, cacheVars, tasks, proofVars,
                   engineVars, files, context_before>>

\* check(all_stmts, is_included=True) is through the statements of the
\* file and process_file returns
FileEnd ==
    /\ pc = "idle"
    /\ is_included
    /\ Top.pos > Len(files[Top.path].stmts)
    /\ include_stack' = SubSeq(include_stack, 1, Len(include_stack) - 1)
    /\ UNCHANGED <<body, installed, fnVars, cache_directive, cacheVars, tasks, proofVars,
                   engineVars, files, processed_files, loaded, last_stmt, done,
                   context_before>>

Init ==
    /\ installed = {}
    /\ store = <<>>
    /\ stored_under = <<>>
    /\ tasks = <<>>
    /\ files = NoFiles /\ StreamIdle /\ FnIdle
    /\ ProofIdle
    /\ \E use_cache \in BOOLEAN, benchmark \in BOOLEAN : EngineInit(use_cache, benchmark)

InitCache ==
    /\ installed = {"vampire"}
    /\ store = <<>>
    /\ stored_under = <<>>
    /\ tasks = <<>>
    /\ files = NoFiles /\ StreamIdle /\ FnIdle
    /\ ProofIdle
    /\ EngineInit(TRUE, FALSE)

\* verify_task called directly, on a machine with vampire
NextCache == DriverCall \/ DriverReturn \/ Lookup \/ Prove \/ Insert

SpecCache == InitCache /\ [][NextCache]_vars

\* verify_task run by the workers of a pool, on a machine with vampire
NextWorkers == DriverSubmit \/ DriverReturn \/ Lookup \/ Prove \/ Insert

SpecWorkers == InitCache /\ [][NextWorkers]_vars

\* runs of the engine over streams of directives and proof blocks whose
\* steps are contradiction sentences, on a machine without eprover and vampire
Next ==
    \/ NewEngine \/ DirectiveCache \/ DirectiveProver
    \/ ProofBegin \/ StepDirective \/ StepContradiction \/ ProofSubmitted
    \/ Report \/ ProofEnd
    \/ Lookup \/ Prove \/ Benchmark \/ Insert

Spec == Init /\ [][Next]_vars

\* one run in standard mode with the cache on, over proof blocks of ordinary
\* and contradiction sentences
InitSteps ==
    /\ installed = {}
    /\ store = <<>>
    /\ stored_under = <<>>
    /\ tasks = <<>>
    /\ files = NoFiles /\ StreamIdle /\ FnIdle
    /\ ProofIdle
    /\ EngineInit(TRUE, FALSE)

NextSteps ==
    \/ ProofBegin \/ StepVerify \/ StepContradiction \/ ProofSubmitted
    \/ Report \/ ProofEnd
    \/ Lookup \/ Prove \/ Insert

SpecSteps == InitSteps /\ [][NextSteps]_vars

\* one run in standard mode with the cache off, over proof blocks with case
\* scopes and sentences that have no translation
InitBody ==
    /\ installed = {}
    /\ store = <<>>
    /\ stored_under = <<>>
    /\ tasks = <<>>
    /\ files = NoFiles /\ StreamIdle /\ FnIdle
    /\ ProofIdle
    /\ EngineInit(FALSE, FALSE)

NextBody ==
    \/ ProofBegin \/ StepCase \/ StepEnd \/ StepUntranslatable \/ StepVerify
    \/ ProofSubmitted \/ Report \/ ProofEnd
    \/ Lookup \/ Prove

SpecBody == InitBody /\ [][NextBody]_vars

\* one run with the cache off, in standard or in benchmark mode, on a machine
\* with vampire and without eprover, over prover and timelimit directives and
\* proof blocks of timelimit directives and contradiction sentences
InitProvers ==
    /\ installed = {"vampire"}
    /\ store = <<>>
    /\ stored_under = <<>>
    /\ tasks = <<>>
    /\ files = NoFiles /\ StreamIdle /\ FnIdle
    /\ ProofIdle
    /\ \E benchmark \in BOOLEAN : EngineInit(FALSE, benchmark)

NextProvers ==
    \/ DirectiveProver \/ DirectiveTimelimit
    \/ ProofBegin \/ StepTimelimit \/ StepContradiction \/ ProofSubmitted
    \/ Report \/ ProofEnd
    \/ Lookup \/ Prove \/ Benchmark

SpecProvers == InitProvers /\ [][NextProvers]_vars

\* one run in benchmark mode with the cache on, on a machine without eprover,
\* with or without vampire, over proof blocks of contradiction sentences; an
\* earlier run has left a proof of the contradiction from no premises in the
\* cache file
InitBenchmark ==
    /\ installed \in {{}, {"vampire"}}
    /\ store = <<Row(goal_hash(F_false), <<>>, TRUE,
                     full_context_hash(BuiltinAxioms, F_false))>>
    /\ stored_under = <<[premises |-> available_hashes_set(BuiltinAxioms),
                         goal |-> goal_hash(F_false)]>>
    /\ tasks = <<>>
    /\ files = NoFiles /\ StreamIdle /\ FnIdle
    /\ ProofIdle
    /\ EngineInit(TRUE, TRUE)

NextBenchmark ==
    \/ ProofBegin \/ StepContradiction \/ ProofSubmitted \/ Report \/ ProofEnd
    \/ Lookup \/ Benchmark

SpecBenchmark == InitBenchmark /\ [][NextBenchmark]_vars

\* proof bodies with assumptions, after a theorem "$1 = 1$." or without a
\* theorem: no cache, standard mode, no prover installed
InitAssume ==
    /\ installed = {}
    /\ store = <<>>
    /\ stored_under = <<>>
    /\ tasks = <<>>
    /\ files = NoFiles /\ StreamIdle /\ FnIdle
    /\ ProofIdle
    /\ axioms = BuiltinAxioms /\ context = <<>> /\ counter = 0
    /\ processed_files = {}
    /\ global_use_cache = FALSE /\ current_cache_enabled = FALSE
    /\ benchmark_mode = FALSE
    /\ active_prover_name = "vampire"
    /\ timelimit = 5
    /\ current_goal \in {NoGoal, FormulaId(4, 1)}

NextAssume ==
    \/ ProofBegin \/ StepVerify
    \/ StepContradictionAssumed \/ StepContrary \/ StepAssumption
    \/ ProofSubmitted \/ Report \/ ProofEnd
    \/ Lookup \/ Prove

SpecAssume == InitAssume /\ [][NextAssume]_vars

\* one proof block of cases, steps and sentences that translate to
\* contrary(), with the cache off and no prover installed, for no goal, a
\* goal that is an equation and a goal that is a universally quantified
\* implication, in an engine that has named MaxCounter - 1 formulas
InitContrary ==
    /\ installed = {}
    /\ store = <<>>
    /\ stored_under = <<>>
    /\ tasks = <<>>
    /\ files = NoFiles /\ StreamIdle /\ FnIdle
    /\ ProofIdle
    /\ axioms = BuiltinAxioms /\ context = <<>> /\ counter = MaxCounter - 1
    /\ processed_files = {}
    /\ global_use_cache = FALSE /\ current_cache_enabled = FALSE
    /\ benchmark_mode = FALSE
    /\ active_prover_name = "vampire"
    /\ timelimit = 5
    /\ current_goal \in {NoGoal, FormulaId(4, 1), FormulaId(1, 1)}

NextContrary ==
    \/ ProofBegin \/ StepCaseContrary \/ StepEnd \/ StepContrary \/ StepVerify
    \/ ProofSubmitted \/ Report \/ ProofEnd
    \/ Lookup \/ Prove

SpecContrary == InitContrary /\ [][NextContrary]_vars

\* ------------------------------------------------ substitute on its own
\* the terms and formulas substitute is called with
SubstTerms ==
    {Variable("x"), Variable("y"), Constant("c"),
     Function("f", <<Variable("x")>>), Function("f", <<Variable("y")>>)}
SubstNames == {"x", "y"}
AtomicFormulas ==
    {Predicate("p", <<t>>) : t \in {Variable("x"), Variable("y"), Function("f", <<Variable("x")>>)}}
    \cup {Equal(Variable("x"), Variable("y"))}
RECURSIVE FormulasUpTo(_)
FormulasUpTo(n) ==
    IF n = 0 THEN AtomicFormulas
    ELSE LET below == FormulasUpTo(n - 1)
         IN below
            \cup {Not(a) : a \in below}
            \cup {And(a, b) : a \in below, b \in below}
            \cup {Quantifier("forall", vs, a) : vs \in {<<"x">>, <<"y">>, <<"x", "y">>}, a \in below}
SubstFormulas == FormulasUpTo(MaxNest)

Call(formula, var_name, replacement) ==
    <<[formula |-> formula, var_name |-> var_name, replacement |-> replacement]>>

InitSubstitute ==
    /\ installed = {}
    /\ store = <<>>
    /\ stored_under = <<>>
    /\ tasks = <<>>
    /\ files = NoFiles /\ StreamIdle
    /\ ProofIdle
    /\ EngineInit(FALSE, FALSE)
    /\ \E formula \in SubstFormulas, var_name \in SubstNames, replacement \in SubstTerms :
          fn_args = Call(formula, var_name, replacement)
    /\ fn_result = NoResultYet

\* substitute(formula, var_name, replacement) returns
Substitute ==
    /\ fn_args # NoCall
    /\ fn_result = NoResultYet
    /\ fn_result' = <<substitute(fn_args[1].formula, fn_args[1].var_name, fn_args[1].replacement)>>
    /\ UNCHANGED <<body, installed, fn_args, streamVars, cache_directive, cacheVars, tasks, engineVars, proofVars>>

NextSubstitute == Substitute

SpecSubstitute == InitSubstitute /\ [][NextSubstitute]_vars

\* one proof block of directives and contradiction sentences in standard
\* mode, with the cache on and no prover installed
InitDirectives ==
    /\ installed = {}
    /\ store = <<>>
    /\ stored_under = <<>>
    /\ tasks = <<>>
    /\ files = NoFiles /\ StreamIdle /\ FnIdle
    /\ ProofIdle
    /\ EngineInit(TRUE, FALSE)

NextDirectives ==
    \/ ProofBegin \/ StepDirectiveNamed \/ StepContradiction \/ ProofSubmitted
    \/ Report \/ ProofEnd
    \/ Lookup \/ Prove \/ Insert

SpecDirectives == InitDirectives /\ [][NextDirectives]_vars

\* one run in standard mode with the cache on, on a machine with vampire
\* and without eprover, over prover and timelimit directives and proof
\* blocks of contradiction sentences
InitFailures ==
    /\ installed = {"vampire"}
    /\ store = <<>>
    /\ stored_under = <<>>
    /\ tasks = <<>>
    /\ files = NoFiles /\ StreamIdle /\ FnIdle
    /\ ProofIdle
    /\ EngineInit(TRUE, FALSE)

NextFailures ==
    \/ DirectiveProver \/ DirectiveTimelimit
    \/ ProofBegin \/ StepContradiction \/ ProofSubmitted
    \/ Report \/ ProofEnd
    \/ Lookup \/ Prove \/ Insert

SpecFailures == InitFailures /\ [][NextFailures]_vars

\* ------------------------------------- the decomposition on its own
\* the working goals check_proof is called with: atoms over the variables
\* x, X and y and the constant x, under universal quantifiers over X and
\* x and over y, implications, and existential quantifiers
GoalAtoms ==
    {Predicate("in", <<Variable("x"), Variable("X")>>), Predicate("p", <<Variable("x")>>),
     Predicate("p", <<Variable("y")>>), Predicate("p", <<Constant("x")>>)}
RECURSIVE GoalsUpTo(_)
GoalsUpTo(n) ==
    IF n = 0 THEN GoalAtoms
    ELSE LET below == GoalsUpTo(n - 1)
         IN below
            \cup {Quantifier("forall", vs, g) : vs \in {<<"X", "x">>, <<"y">>}, g \in below}
            \cup {Implies(a, g) : a \in GoalAtoms, g \in below}
            \cup {Quantifier("exists", <<"y">>, g) : g \in below}
Goals == GoalsUpTo(MaxNest + 1)

InitDecompose ==
    /\ installed = {}
    /\ store = <<>>
    /\ stored_under = <<>>
    /\ tasks = <<>>
    /\ files = NoFiles /\ StreamIdle
    /\ ProofIdle
    /\ EngineInit(FALSE, FALSE)
    /\ \E goal \in Goals : fn_args = <<goal>>
    /\ fn_result = NoResultYet

\* the loop of check_proof, lines 419-445, is left
Decomposition ==
    /\ fn_args # NoCall
    /\ fn_result = NoResultYet
    /\ fn_result' = <<Decompose(fn_args[1], <<>>)>>
    /\ UNCHANGED <<body, installed, fn_args, streamVars, cache_directive, cacheVars, tasks, engineVars, proofVars>>

NextDecompose == Decomposition

SpecDecompose == InitDecompose /\ [][NextDecompose]_vars

\* a run over a main file and the files it includes, without proofs: no
\* cache, standard mode
InitInclude ==
    /\ installed = {}
    /\ store = <<>>
    /\ stored_under = <<>>
    /\ tasks = <<>>
    /\ files \in FileSystems /\ StreamIdle /\ FnIdle
    /\ ProofIdle
    /\ EngineInit(FALSE, FALSE)

NextInclude ==
    \/ StatementBlock \/ StatementSentence \/ StatementTheorem
    \/ StatementProofIncluded \/ DirectiveRead \/ FileEnd

SpecInclude == InitInclude /\ [][NextInclude]_vars

\* process_file runs to its end once it is called
SpecIncludeFair ==
    InitInclude /\ [][NextInclude]_vars /\ WF_vars(is_included /\ NextInclude)

\* the same run with the proofs of the main file
NextStream ==
    \/ StatementBlock \/ StatementSentence \/ StatementTheorem
    \/ StatementProofIncluded \/ DirectiveRead \/ FileEnd
    \/ ProofBegin \/ StepVerify \/ ProofSubmitted \/ Report \/ ProofEnd
    \/ Lookup \/ Prove

SpecStream == InitInclude /\ [][NextStream]_vars

\* ------------------------------------------------ the cache lookup (C1-C3)
\* t has made its lookup and the table is as it was at that lookup
Looked(t) ==
    /\ UsesCache(t)
    /\ \/ t.state \in {"proving", "insert", "raised"}
       \/ t.state = "done" /\ t.ret.is_cached

Avail(t) == available_hashes_set(t.all_axioms)
Ctx(t) == full_context_hash(t.all_axioms, t.goal_repr)

SuccessFor(r, t) == r.goal_hash = goal_hash(t.goal_repr) /\ r.result
FailureFor(r, t) == r.goal_hash = goal_hash(t.goal_repr) /\ ~r.result

Applies(r, t) ==
    \/ SuccessFor(r, t) /\ Range(r.dependencies) \subseteq Avail(t)
    \/ FailureFor(r, t) /\ r.context_hash = Ctx(t)

ApplicableSuccess(t) ==
    \E k \in 1..Len(store) : SuccessFor(store[k], t) /\ Applies(store[k], t)

MatchingFailure(t) ==
    \E k \in 1..Len(store) : FailureFor(store[k], t) /\ Applies(store[k], t)

\* a matching failure row comes before every applicable success row
FailureFirst(t) ==
    \E k \in 1..Len(store) :
        /\ FailureFor(store[k], t) /\ Applies(store[k], t)
        /\ \A j \in 1..(k - 1) : ~(SuccessFor(store[j], t) /\ Applies(store[j], t))

\* C1 (as claimed): a lookup returns True whenever the table holds a success
\* record of the goal whose dependencies are all available, whatever failure
\* records are stored and whatever the order of insertion.
C1_SuccessRecordWins ==
    \A n \in 1..Len(tasks) :
        (Looked(tasks[n]) /\ ApplicableSuccess(tasks[n]))
            => tasks[n].cached_result = "True"

C3_FalseOnlyOnExactContext ==
    \A n \in 1..Len(tasks) :
        Looked(tasks[n]) =>
            /\ tasks[n].cached_result = "False" => MatchingFailure(tasks[n])
            /\ tasks[n].cached_result = "True" => ApplicableSuccess(tasks[n])
            /\ (~ApplicableSuccess(tasks[n]) /\ ~MatchingFailure(tasks[n]))
                    => tasks[n].cached_result = None
            /\ tasks[n].cached_result = "False" =>
                    \E k \in 1..Len(store) :
                        ~store[k].result /\ stored_under[k] = Obligation(tasks[n])

\* a failure of the same goal is stored under other premises, and a success
\* under another goal, and the lookup is unknown
C3_Witness ==
    \E n \in 1..Len(tasks) :
        /\ Looked(tasks[n])
        /\ tasks[n].cached_result = None
        /\ \E k \in 1..Len(store) : FailureFor(store[k], tasks[n])
        /\ \E k \in 1..Len(store) :
              store[k].goal_hash # goal_hash(tasks[n].goal_repr) /\ store[k].result

\* ---------------------------------------- cache flags and directives (C4-C6)
\* C4: in a run of an engine created with caching globally disabled, whatever
\* cache directives its stream holds, no step changes the rows of the store
\* (so a later run finds them as they were), no obligation is submitted with
\* the cache in use or gets an answer from it, and no step is reported with
\* source Cached.
C4_GlobalNoCacheLeavesStore ==
    [][~global_use_cache =>
          /\ store' = store
          /\ \A n \in 1..Len(tasks') :
                ~tasks'[n].use_cache /\ tasks'[n].cached_result = None
          /\ \A k \in 1..Len(reported') : reported'[k].source # "(Cached)"]_vars

\* a run without the cache, after a cache on directive, has sent to the prover
\* and reported an obligation whose result an earlier run left in the store
C4_Witness ==
    /\ ~global_use_cache /\ cache_directive = "on"
    /\ \E n \in 1..Len(reported) :
          /\ reported[n].call = "step_verified"
          /\ tasks[n].calls # <<>>
          /\ \E k \in 1..Len(store) : Applies(store[k], tasks[n])

\* C5 (as claimed): with caching globally enabled, an obligation submitted
\* after a cache off directive and before the next cache on directive does not
\* use the cache, and an obligation submitted after a cache on directive does.
C5_CacheDirectiveGovernsSubmissions ==
    [][(global_use_cache /\ Len(tasks') > Len(tasks)) =>
          LET t == tasks'[Len(tasks')]
          IN /\ cache_directive = "off" => ~UsesCache(t)
             /\ cache_directive = "on" => UsesCache(t)]_vars

PremiseHashes(all_axioms, names) ==
    {compute_hash_formula(all_axioms[k][2]) :
        k \in {j \in 1..Len(all_axioms) : all_axioms[j][1] \in names}}

\* C7: every row a worker appends to the store is the record of its prover
\* result: a success carries the digests of the premises whose names the
\* prover reported (none when it reported none), or of all premises when the
\* prover reported no dependencies; a failure carries result false, no
\* dependencies and the context hash of all premises and the goal.
C7_StoredRecordMatchesResult ==
    [][store' # store =>
          \E n \in 1..Len(tasks) :
              LET t == tasks[n]
                  ax == t.all_axioms
                  row == store'[Len(store')]
              IN /\ t.state = "insert" /\ tasks'[n].state = "done"
                 /\ store' = Append(store, row)
                 /\ row.goal_hash = goal_hash(t.goal_repr)
                 /\ row.result = t.result.success
                 /\ IF t.result.success
                    THEN IF t.result.reports_used
                         THEN /\ Range(row.dependencies) =
                                    PremiseHashes(ax, Range(t.result.used_axioms))
                              /\ t.result.used_axioms = <<>> => row.dependencies = <<>>
                         ELSE Range(row.dependencies) = PremiseHashes(ax, Names(ax))
                    ELSE /\ row.dependencies = <<>>
                         /\ Range(row.context_hash[1]) = PremiseHashes(ax, Names(ax))
                         /\ row.context_hash[2] = goal_hash(t.goal_repr)]_vars

\* the store holds a failure and a success whose dependencies are some but
\* not all of the premises it was proved from
C7_Witness ==
    \E j, k \in 1..Len(store) :
        /\ store[j].result /\ store[j].dependencies # <<>>
        /\ Range(store[j].dependencies) # stored_under[j].premises
        /\ ~store[k].result

\* ------------------------------------------------- concurrent saves (C8)
\* C8 (as claimed): the table never holds two rows with the same goal_hash,
\* dependencies, result and context_hash.
C8_NoDuplicateRows ==
    \A j, k \in 1..Len(store) : j # k => store[j] # store[k]

\* ------------------------------------------------------ reporting (C9, C10)
\* C9: the reports of a proof block are made in the order in which its
\* obligations were submitted, whatever the order in which they finish.
C9_ReportedInSubmissionOrder ==
    /\ Len(reported) <= Len(tasks)
    /\ \A k \in 1..Len(reported) : reported[k].step_num = tasks[k].step_num
    /\ \A j, k \in 1..Len(tasks) : j < k => tasks[j].step_num < tasks[k].step_num

\* the second obligation has finished before the first one while the main
\* thread is in the report loop
C9_Witness ==
    /\ pc = "wait" /\ Len(tasks) >= 2
    /\ Finished(tasks[2]) /\ ~Finished(tasks[1])
    /\ reported = <<>>

\* C10: when check_proof returns, every obligation it submitted has finished
\* and has exactly one report, an error for a task that raised and a
\* step_verified otherwise; and while the main thread is outside check_proof
\* no obligation is pending.
C10_AllReportedBeforeReturn ==
    [][/\ (pc = "wait" /\ pc' = "idle") =>
            /\ Len(reported) = Len(tasks)
            /\ \A n \in 1..Len(tasks) :
                  /\ Finished(tasks[n])
                  /\ Cardinality({k \in 1..Len(reported) :
                                     reported[k].step_num = tasks[n].step_num}) = 1
                  /\ \A k \in 1..Len(reported) :
                        reported[k].step_num = tasks[n].step_num =>
                            reported[k].call = IF tasks[n].state = "raised"
                                               THEN "error" ELSE "step_verified"
       /\ pc' = "idle" => tasks' = <<>>]_vars

\* check_proof is about to return from a block whose first obligation raised
\* and whose second one failed, both reported
C10_Witness ==
    /\ pc = "wait" /\ reporting > Len(tasks) /\ Len(tasks) >= 2
    /\ tasks[1].state = "raised"
    /\ tasks[2].state = "done" /\ ~tasks[2].ret.success
    /\ Len(reported) = Len(tasks)
    /\ reported[1].call = "error" /\ reported[2].call = "step_verified"

\* ------------------------------------------------ premise snapshots (C11)
\* C11: the premises a worker works with and passes to the prover are the
\* axiom list, theorem context and proof context as they were when the
\* obligation was submitted, and no step of a worker changes one of the three
\* lists.
C11_WorkerSeesSubmissionSnapshot ==
    [][/\ \A n \in 1..Len(tasks') :
            /\ tasks'[n].state # "submitted" =>
                  tasks'[n].all_axioms = tasks'[n].submitted_with
            /\ \A k \in 1..Len(tasks'[n].calls) :
                  tasks'[n].calls[k][3] = tasks'[n].submitted_with
       /\ (Len(tasks') = Len(tasks) /\ tasks' # tasks) =>
            UNCHANGED <<axioms, context, proof_context>>]_vars

\* a worker has called the prover for an obligation after the main thread
\* appended a later step to the proof context
C11_Witness ==
    \E n \in 1..Len(tasks) :
        /\ Len(tasks[n].calls) = 1
        /\ tasks[n].calls[1][3] = tasks[n].submitted_with
        /\ Len(axioms \o context \o proof_context) > Len(tasks[n].submitted_with)

\* ------------------------------------------------- case scopes (C12)
\* statement c of the body is a Case sentence, not the closing Case End
OpensCase(c) == IsCase(body[c]) /\ ~IsEnd(body[c])

\* Case sentences less closing sentences among statements c+1..j
Balance(c, j) ==
    Cardinality({k \in (c + 1)..j : OpensCase(k)})
      - Cardinality({k \in (c + 1)..j : IsEnd(body[k])})

\* statement s lies after Case sentence c and before the End that closes it
InsideCase(c, s) == c < s /\ \A j \in (c + 1)..(s - 1) : Balance(c, j) >= 0

\* statement e is the End that closes Case sentence c
ClosesCase(c, e) == InsideCase(c, e) /\ IsEnd(body[e]) /\ Balance(c, e) = 0 - 1

\* the proof context after statement e
ContextAfter(e) == IF e < Len(body) THEN body[e + 1].before ELSE proof_context

\* C12: for every Case ... End pair of a proof body, nested pairs included,
\* the obligations submitted inside the case have the case assumption in
\* their proof-context snapshot, the proof context after the End is the one
\* before the Case sentence, and no later obligation has the case assumption
\* or a step of the case in its snapshot.
C12_CaseScopeRestored ==
    \A c \in 1..Len(body) : OpensCase(c) =>
        /\ \A n \in 1..Len(tasks) :
              (InsideCase(c, tasks[n].step_num) /\ body[c].f # NoFormula)
                => <<Name("step", c - 1), body[c].f>> \in Range(tasks[n].submitted_with)
        /\ \A e \in 1..Len(body) : ClosesCase(c, e) =>
              /\ ContextAfter(e) = body[c].before
              /\ \A n \in 1..Len(tasks) : tasks[n].step_num > e =>
                    \A j \in c..e : Name("step", j - 1) \notin Names(tasks[n].submitted_with)
\* ------------------------------------- untranslatable sentences (C20)
\* the sentence is one of the structural markers End, qed, Proof
IsMarkerSentence(s) ==
    IsEnd(s) \/ (Len(s.atoms) = 1 /\ s.atoms[1] \in {"End", "qed", "Proof"})

\* the step taken processes a sentence that is no marker and has no formula
UntranslatableStep ==
    /\ Len(body') = Len(body) + 1
    /\ body'[Len(body')].f = NoFormula
    /\ body'[Len(body')].atoms # DirectiveStatement.atoms
    /\ ~IsMarkerSentence(body'[Len(body')])

\* C20: a proof-body sentence that is no structural marker and yields no
\* formula gets an error naming its step, submits no obligation, leaves the
\* proof context and the scope stack as they are, and the loop goes on with
\* the next statement.
C20_UntranslatableReportedAndSkipped ==
    [][UntranslatableStep =>
         /\ reported' = Append(reported, CouldNotTranslate(i + 1))
         /\ tasks' = tasks
         /\ proof_context' = proof_context /\ scope_stack' = scope_stack
         /\ pc' = "steps" /\ i' = i + 1]_vars
\* -------------------------------------- the prover directive (C17)
\* C17: a prover directive naming a registered prover makes the proof blocks
\* checked afterwards, in standard mode, run their obligations on that
\* prover; a directive naming an unregistered prover leaves the active
\* prover as it is; under benchmark mode a prover directive leaves the
\* active prover as it is.
C17_ProverDirectiveSwitchesUnlessBenchmark ==
    [][/\ benchmark_mode => active_prover_name' = active_prover_name
       /\ active_prover_name' \in ProverNames
       /\ (pc = "idle" /\ pc' = "steps") => current_prover' = active_prover_name
       /\ ~benchmark_mode =>
             \A n \in 1..Len(tasks') : \A k \in 1..Len(tasks'[n].calls) :
                 tasks'[n].calls[k][1] = current_prover']_vars

\* ----------------------------------------- the time budget (C18)
\* C18: every call of a prover made for an obligation is given the time
\* limit of the engine at the submission of the obligation, which is the
\* value of the last timelimit directive with a numeric argument (5 when
\* there was none), in standard mode and in benchmark mode.
C18_BudgetIsTimelimitAtSubmission ==
    [][\A n \in 1..Len(tasks') :
          /\ n > Len(tasks) => tasks'[n].timeout_override = timelimit
          /\ \A k \in 1..Len(tasks'[n].calls) :
                tasks'[n].calls[k][2] = tasks'[n].timeout_override]_vars

\* ------------------------------------------ benchmark mode (C19)
\* the place of a prover in the registration order
Registered(p) == CHOOSE k \in 1..Len(AllProvers) : AllProvers[k] = p

RECURSIVE FreeVars(_)
FreeVars(e) ==
    IF e.op = "Variable" THEN {e.name}
    ELSE IF e.op = "Quantifier" THEN FreeVars(e.args[1]) \ Range(e.vars)
    ELSE UNION {FreeVars(e.args[k]) : k \in 1..Len(e.args)}

\* C13: in every reachable state of the engine, whatever statements it has
\* processed (definitions, axioms, lemmas, top-level sentences, theorems
\* of included files), every formula of the axiom list, the built-in
\* axioms included, is closed: it has no free variable.
C13_AxiomsClosed ==
    \A k \in 1..Len(axioms) : FreeVars(Ast(axioms[k][2])) = {}

\* ------------------------------------- the context of a theorem (C14)
\* the entries of Engine.context made by the theorems before the last one
EarlierContext == {context[k] : k \in 1..context_before}

\* C14: the context entries of a theorem are there for that theorem only:
\* when a theorem T1 of the stream is followed later by a theorem T2, no
\* context entry made while T1 was processed is among the premises of an
\* obligation submitted for the proof of T2.
C14_ContextOfEarlierTheoremNotPremise ==
    \A n \in 1..Len(tasks) :
        /\ EarlierContext \cap Range(tasks[n].submitted_with) = {}
        /\ EarlierContext \cap Range(tasks[n].all_axioms) = {}

\* ------------------------------------------------ read directives (C15)
\* process_statement is called with a read directive whose path is in
\* processed_files
ReadOfProcessedPath ==
    /\ done' = done + 1
    /\ last_stmt'.kind = "read"
    /\ last_stmt'.path \in processed_files

ImportsTheorem ==
    /\ is_included
    /\ done' = done + 1
    /\ last_stmt'.kind = "Theorem"
    /\ translate_statement(last_stmt') # <<>>

\* the axioms that are theorems of included files
ImportedTheorems == {k \in 1..Len(axioms) : axioms[k][1][1] = "thm"}

\* C16: while the statements of an included file are processed no
\* obligation is submitted and neither the goal nor the theorem-level
\* context changes; a theorem of the included file whose statement
\* translates adds exactly one axiom, a closed one, to the axiom list, and
\* that axiom is among the premises of every obligation the including
\* file submits afterwards.
C16_IncludedTheoremsBecomeAxioms ==
    /\ [][is_included => UNCHANGED <<tasks, current_goal, context>>]_vars
    /\ [][ImportsTheorem =>
            /\ Len(axioms') = Len(axioms) + 1
            /\ SubSeq(axioms', 1, Len(axioms)) = axioms
            /\ FreeVars(Ast(axioms'[Len(axioms')][2])) = {}]_vars
    /\ [](\A n \in 1..Len(tasks) : \A k \in ImportedTheorems :
            axioms[k] \in Range(tasks[n].submitted_with))

\* ------------------------------------------------- substitution (C21)
\* the result of the call of substitute, once it has returned
Returned_formula == fn_result[1]

\* the result leaves alone whatever stands under a quantifier of the
\* argument that binds var_name
RECURSIVE KeepsBound(_, _, _)
KeepsBound(formula, result, var_name) ==
    IF formula.op = "Quantifier" /\ var_name \in Range(formula.vars)
    THEN result = formula
    ELSE IF formula.op \in {"Not", "And", "Or", "Implies", "Iff", "Quantifier"}
    THEN /\ result.op = formula.op
         /\ Len(result.args) = Len(formula.args)
         /\ \A k \in 1..Len(formula.args) :
               KeepsBound(formula.args[k], result.args[k], var_name)
    ELSE TRUE

\* C21: for formulas F, names x and terms t of a bounded set,
\* substitute(F, x, t) is equal to F when x is not free in F, it replaces
\* no occurrence of x bound by an enclosing quantifier, and it avoids
\* capture: a variable of t is not bound by a quantifier of F in the
\* result, so where x was free the variables of t are free in the result.
C21_SubstituteAvoidsCapture ==
    fn_result # NoResultYet =>
        LET F == fn_args[1].formula
            x == fn_args[1].var_name
            t == fn_args[1].replacement
        IN /\ x \notin FreeVars(F) => Returned_formula = F
           /\ KeepsBound(F, Returned_formula, x)
           /\ x \in FreeVars(F) =>
                FreeVars(Returned_formula) = (FreeVars(F) \ {x}) \cup FreeVars(t)

\* ------------------------------------------- assumption sentences (C22)
\* the sentence check_proof has just gone through
LastSentence == body'[Len(body')]
SentenceStep == Len(body') = Len(body) + 1

\* the text begins with Assume, Let, Take, Define or Consider
BeginsAsAssumption(s) == s.atoms[1] \in {"Assume", "Let", "Take", "Define", "Consider"}

\* no obligation is submitted and the formula of the sentence is appended
\* to the proof context
AssumedOnly ==
    /\ tasks' = tasks
    /\ proof_context' = Append(proof_context, <<Name("step", i), LastSentence.f>>)

RECURSIVE Remains(_)
Remains(goal) ==
    IF goal.op = "Quantifier" /\ goal.name = "forall" THEN Remains(goal.args[1])
    ELSE IF goal.op = "Implies" THEN Remains(goal.args[2])
    ELSE goal

\* the shape of a formula, the names of its variables and constants left out
RECURSIVE Shape(_)
Shape(t) ==
    IF t.op \in {"Variable", "Constant"} THEN <<"term">>
    ELSE <<t.op, t.name, [k \in 1..Len(t.args) |-> Shape(t.args[k])]>>

\* the entry appended is the negation of what remains of the working goal
NegatedFocusAppended ==
    /\ Len(proof_context') = Len(proof_context) + 1
    /\ SubSeq(proof_context', 1, Len(proof_context)) = proof_context
    /\ LET entry == proof_context'[Len(proof_context')]
       IN /\ entry[1] = Name("step", i)
          /\ entry[2] >= 0
          /\ Ast(entry[2]).op = "Not"
          /\ Shape(Ast(entry[2]).args[1]) = Shape(Remains(Ast(current_goal)))
          /\ entry[2] = F_not(focus)

\* C24: a sentence of a proof body that translates to contrary() submits no
\* obligation; with a working goal, the negation of the goal focus, which
\* is what remains of the working goal after decomposition, is appended to
\* the proof context; without one, an error is reported and the proof
\* context stays as it is.
C24_ContraryAppendsNegatedFocus ==
    [][(SentenceStep /\ LastSentence.f = F_contrary) =>
          /\ tasks' = tasks
          /\ IF current_goal # NoGoal
             THEN NegatedFocusAppended /\ reported' = reported
             ELSE /\ proof_context' = proof_context
                  /\ Len(reported') = Len(reported) + 1
                  /\ reported'[Len(reported')].call = "error"]_vars

\* ---------------------------------------------- decomposition (C25)
\* the bound variables the decomposition of goal strips, outermost first
RECURSIVE Stripped(_)
Stripped(goal) ==
    IF goal.op = "Quantifier" /\ goal.name = "forall" THEN goal.vars \o Stripped(goal.args[1])
    ELSE IF goal.op = "Implies" THEN Stripped(goal.args[2])
    ELSE <<>>

\* the left sides of the implications it strips, outermost first
RECURSIVE Antecedents(_)
Antecedents(goal) ==
    IF goal.op = "Quantifier" /\ goal.name = "forall" THEN Antecedents(goal.args[1])
    ELSE IF goal.op = "Implies" THEN <<goal.args[1]>> \o Antecedents(goal.args[2])
    ELSE <<>>

\* the names of the constants of a term or a formula
RECURSIVE ConstantNames(_)
ConstantNames(t) ==
    IF t.op = "Constant" THEN {t.name}
    ELSE UNION {ConstantNames(t.args[k]) : k \in 1..Len(t.args)}

Decomposition_result == fn_result[1]

\* the loop ends, with a focus that is neither a universal quantifier nor
\* an implication
C25_Terminates ==
    /\ Decomposition_result.focus.op # "Implies"
    /\ ~(Decomposition_result.focus.op = "Quantifier" /\ Decomposition_result.focus.name = "forall")

\* the left sides are appended outermost first
C25_Order ==
    /\ Len(Decomposition_result.left) = Len(Antecedents(fn_args[1]))
    /\ \A j \in 1..Len(Decomposition_result.left) :
          Shape(Decomposition_result.left[j]) = Shape(Antecedents(fn_args[1])[j])

\* no stripped variable is left free in the focus or in a left side
C25_Replaced ==
    /\ FreeVars(Decomposition_result.focus) \subseteq FreeVars(fn_args[1])
    /\ \A j \in 1..Len(Decomposition_result.left) :
          FreeVars(Decomposition_result.left[j]) \subseteq FreeVars(fn_args[1])

\* the constants are fresh: none occurs in the goal, and two stripped
\* variables have two constants
C25_Fresh ==
    LET names == Stripped(fn_args[1])
    IN /\ \A j \in 1..Len(names) : lower(names[j]) \notin ConstantNames(fn_args[1])
       /\ \A j \in 1..Len(names) : \A k \in 1..Len(names) :
             j # k => lower(names[j]) # lower(names[k])

\* C25: the decomposition of a working goal terminates with a focus that
\* is neither a universal quantifier nor an implication, the left sides
\* of the implications it strips are appended to the proof context
\* outermost first, and every stripped bound variable is replaced in the
\* body by a fresh constant: one that does not occur in the goal, and
\* another one for every stripped variable.
C25_DecompositionFreshConstants ==
    fn_result # NoResultYet =>
        C25_Terminates /\ C25_Order /\ C25_Replaced /\ C25_Fresh

\* -------------------------------------- directives in a proof (C26)
\* the directives name of the proof body so far that take effect: a prover
\* directive with a registered name, a timelimit with a number
Effective(name) ==
    {k \in 1..Len(body) :
        /\ body[k].atoms[1] = "[" /\ Len(body[k].atoms) = 3 /\ body[k].atoms[2] = name
        /\ name = "prover" => body[k].atoms[3] \in ProverNames
        /\ name = "timelimit" => body[k].atoms[3] \in {"0", "2"}}

\* the argument of the last of them
LastArgument(name) ==
    LET last == CHOOSE k \in Effective(name) : \A m \in Effective(name) : m <= k
    IN body[last].atoms[3]

\* C26: an obligation submitted in a proof body after a prover, cache or
\* timelimit directive of that proof body is submitted with the prover,
\* the cache setting and the time budget of the last such directive, and
\* a directive leaves the obligations submitted before it as they are.
C26_DirectiveInProofBodyGovernsLaterObligations ==
    /\ [][Len(tasks') > Len(tasks) =>
            LET t == tasks'[Len(tasks')]
            IN /\ (Effective("prover") # {} /\ ~benchmark_mode) =>
                     t.prover_instance = LastArgument("prover")
               /\ Effective("cache") # {} =>
                     t.use_cache = (global_use_cache /\ LastArgument("cache") = "on")
               /\ Effective("timelimit") # {} =>
                     t.timeout_override = (IF LastArgument("timelimit") = "0" THEN 0 ELSE 2)]_vars
    /\ [][(SentenceStep /\ LastSentence.atoms[1] = "[") => tasks' = tasks]_vars

\* ------------------------------------------ stored results (C27)
\* task n makes its cache lookup in this step
LooksUp(n) ==
    /\ n \in 1..Len(tasks) /\ n \in 1..Len(tasks')
    /\ tasks[n].state = "submitted" /\ tasks'[n].state # "submitted"
    /\ UsesCache(tasks[n])

\* row k was stored for the conjecture and the premise formulas of t
StoredFor(k, t) == stored_under[k] = Obligation(t)

\* what a lookup answers for a stored result
Answer(result) == IF result THEN "True" ELSE "False"

\* C27: with the cache in use, once the result r of an obligation is
\* stored, every later lookup for an obligation with the same conjecture
\* and the same set of premise formulas returns r, whatever the workers'
\* interleaving and whatever results the provers return.
C27_LaterLookupReturnsStoredResult ==
    [][\A n \in 1..Len(tasks) : LooksUp(n) =>
          \A k \in 1..Len(store) : StoredFor(k, tasks'[n]) =>
              tasks'[n].cached_result = Answer(store[k].result)]_vars

\* the rows that apply to the lookup of t
Applicable(t) == {j \in 1..Len(store) : Applies(store[j], t)}

\* C27 as the code has it: once the result r of an obligation is stored,
\* every later lookup for the same conjecture and the same premise
\* digests, each as often, returns a stored result: r when no row with the
\* other result applies to it, and else the result of one of the rows
\* that apply.
C27_LaterLookupReturnsAStoredResult ==
    [][\A n \in 1..Len(tasks) : LooksUp(n) =>
          \A k \in 1..Len(store) :
              (/\ StoredFor(k, tasks'[n])
               /\ store[k].context_hash = Ctx(tasks'[n])) =>
                  LET t == tasks'[n]
                  IN /\ k \in Applicable(t)
                     /\ \E j \in Applicable(t) : t.cached_result = Answer(store[j].result)
                     /\ (\A j \in Applicable(t) : store[j].result = store[k].result) =>
                            t.cached_result = Answer(store[k].result)]_vars

\* two workers have stored different results for one obligation, and a
\* later lookup for it has returned the first of them
C27_Witness ==
    /\ Len(store) = 2
    /\ stored_under[1] = stored_under[2]
    /\ store[1].result # store[2].result
    /\ \E n \in 1..Len(tasks) :
          /\ tasks[n].state = "done" /\ tasks[n].ret.is_cached
          /\ Obligation(tasks[n]) = stored_under[1]
          /\ Applicable(tasks[n]) = {1, 2}
          /\ tasks[n].cached_result = Answer(store[1].result)

\* ------------------------------------------- stored failures (C28)
\* task n is taken up by a worker in this step
TakenUp(n) ==
    /\ n \in 1..Len(tasks) /\ n \in 1..Len(tasks')
    /\ tasks[n].state = "submitted" /\ tasks'[n].state # "submitted"

\* the obligation is answered as failed by the cache, no prover being called
FailedFromCache(t) ==
    /\ t.state = "done" /\ t.calls = <<>>
    /\ t.ret.is_cached /\ ~t.ret.success

\* C28: once a failure is stored for a conjecture under a set of premises,
\* every later obligation with the same conjecture and premises is
\* answered as failed from the cache and no prover is called for it,
\* whatever the time budget and the active prover have become.
C28_StoredFailureAnswersLaterObligations ==
    [][\A n \in 1..Len(tasks) : TakenUp(n) =>
          \A k \in 1..Len(store) :
              (~store[k].result /\ StoredFor(k, tasks'[n])) => FailedFromCache(tasks'[n])]_vars

\* C28 as the code has it: the same for an obligation that is run with the
\* cache in use, has the premise digests of the stored failure, each as
\* often, and to which no stored success record applies.
C28_StoredFailureAnswersUnlessSuccessApplies ==
    [][\A n \in 1..Len(tasks) : TakenUp(n) =>
          \A k \in 1..Len(store) :
              (/\ ~store[k].result /\ StoredFor(k, tasks'[n])
               /\ tasks[n].use_cache /\ ~tasks[n].benchmark_mode
               /\ store[k].context_hash = Ctx(tasks'[n])
               /\ ~ApplicableSuccess(tasks'[n])) => FailedFromCache(tasks'[n])]_vars

\* an obligation submitted for the prover dummy, which proves everything,
\* under a time budget of 2 is answered as failed from the cache
C28_Witness ==
    \E n \in 1..Len(tasks) :
        /\ FailedFromCache(tasks[n])
        /\ tasks[n].prover_instance = "dummy"
        /\ tasks[n].timeout_override = 2

\* ------------------------------------------- the working goal (C29)
\* check_proof is called and decomposes a working goal
DecomposesGoal == pc = "idle" /\ pc' = "steps" /\ current_goal # NoGoal

\* C29: when check_proof decomposes a working goal, the statement before
\* the proof block is a theorem of the main file whose statement was
\* translated, and the working goal is the last formula of that theorem.
C29_GoalSetByPrecedingTheorem ==
    [][DecomposesGoal =>
          /\ last_stmt.kind = "Theorem"
          /\ translate_statement(last_stmt) # <<>>
          /\ current_goal = FormulaId(last_stmt.block, Len(translate_statement(last_stmt)))]_vars

\* ------------------------------------- the statement proved (C30)
\* a proof block is being checked and the statement before it is of kind
\* kind and has a translation
Proves(kind) ==
    /\ pc # "idle"
    /\ last_stmt.kind = kind
    /\ translate_statement(last_stmt) # <<>>

\* C30: no obligation of a proof block has the formula of the statement
\* the proof block proves among its premises: the entry a lemma added to
\* the axiom list is not a premise of the obligations of the proof block
\* that follows the lemma, and the goal of a theorem is not among the
\* context entries the theorem added.
C30_ProvedStatementNotPremise ==
    /\ Proves("Lemma") =>
          \A n \in 1..Len(tasks) : axioms[Len(axioms)] \notin Range(tasks[n].submitted_with)
    /\ (Proves("Theorem") /\ tasks # <<>>) =>
          \A k \in (context_before + 1)..Len(context) : context[k][2] # current_goal

\* ---------------------------------------------- ordinary steps (C23)
\* the proof context after the statements b of a proof body, as the case
\* scopes of the text give it: a Case opens a scope, an End closes the
\* innermost one, and a step that is assumed, or was submitted, stays for
\* the rest of its scope; with the scopes that are open
RECURSIVE InScope(_)
InScope(b) ==
    IF b = <<>> THEN [ctx |-> <<>>, stack |-> <<>>]
    ELSE LET e == b[Len(b)]
             was == InScope(SubSeq(b, 1, Len(b) - 1))
             entry == <<Name("step", Len(b) - 1), e.f>>
         IN IF e.atoms[1] = "["
            THEN was
            ELSE IF e.atoms[1] = "End" \/ (Len(e.atoms) > 1 /\ e.atoms[1] = "Case" /\ e.atoms[2] = "End")
            THEN IF was.stack = <<>> THEN was
                 ELSE [ctx |-> was.stack[Len(was.stack)],
                       stack |-> SubSeq(was.stack, 1, Len(was.stack) - 1)]
            ELSE IF e.atoms[1] = "Case"
            THEN [ctx |-> IF e.f = NoFormula THEN was.ctx ELSE Append(was.ctx, entry),
                  stack |-> Append(was.stack, was.ctx)]
            ELSE IF e.f \in {NoFormula, F_false}
            THEN was
            ELSE IF e.f = F_contrary
            THEN IF focus = NoGoal THEN was
                 ELSE [was EXCEPT !.ctx = Append(was.ctx, <<Name("step", Len(b) - 1), F_not(focus)>>)]
            ELSE [was EXCEPT !.ctx = Append(was.ctx, entry)]

\* statement k of the body is a sentence that is neither a directive nor a
\* Case, End, assumption, contrary or contradiction sentence and has a
\* translation
OrdinaryStep(k) ==
    /\ body[k].atoms[1] \notin {"[", "Case", "End"}
    /\ ~BeginsAsAssumption(body[k])
    /\ body[k].f \notin {NoFormula, F_contrary, F_false}

\* C23: for every sentence of a proof body that is not a directive, Case,
\* End, assumption, contrary or contradiction sentence and translates to
\* G, exactly one obligation is submitted, with conjecture G; its snapshot
\* of the proof context is exactly what the earlier steps left in the
\* current scope, without the entry of G itself; and G is appended to the
\* proof context right after, so that the later steps of the scope have it.
C23_OrdinaryStepSubmittedThenAppended ==
    \A k \in 1..Len(body) :
        OrdinaryStep(k) =>
            LET entry == <<Name("step", k - 1), body[k].f>>
                after == IF k < Len(body) THEN body[k + 1].before ELSE proof_context
            IN /\ Cardinality({n \in 1..Len(tasks) : tasks[n].step_num = k}) = 1
               /\ \A n \in 1..Len(tasks) :
                    tasks[n].step_num = k =>
                        /\ tasks[n].goal_repr = body[k].f
                        /\ tasks[n].proof_context_repr.val = InScope(SubSeq(body, 1, k - 1)).ctx
                        /\ entry \notin Range(tasks[n].proof_context_repr.val)
               /\ after = Append(body[k].before, entry)
               /\ after = InScope(SubSeq(body, 1, k)).ctx

====
